---- MODULE Spec2Model ----
(***************************************************************************)
(* A model of the Raspberry Pi custom drivers under src/custom-drivers:    *)
(* the GPIO driver (custom-gpio-driver.c), the PWM driver                  *)
(* (custom-pwm-driver.c) and the LED character-device driver               *)
(* (custom-led-driver.c).                                                  *)
(*                                                                         *)
(* A 32-bit register word is modelled as the set of its set bit positions  *)
(* (a subset of 0..31): & is intersection, | is union, ~ is complement     *)
(* within 0..31 and << moves positions up, dropping those that leave the   *)
(* word.  Registers that only ever hold small counts (the PWM range and    *)
(* data registers) are naturals.                                           *)
(***************************************************************************)
EXTENDS Integers, Sequences, FiniteSets, TLC

(***************************************************************************)
(* Error numbers (custom-errno.h; EINVAL, EMSGSIZE and EINTR are errno.h)  *)
(***************************************************************************)
ENONE == 0
EINTERNAL == 1000
EINVPIN == 1001
EINVREG == 1002
EMAPPING == 1003
EUNSUPCMD == 1004
EINVFUNC == 1006

(***************************************************************************)
(* GPIO driver constants                                                   *)
(***************************************************************************)
MIN_PIN_NUM == 2
MAX_PIN_NUM == 27
GPFSEL_GPIO_PINS_PER_REG == 10
GPFSEL_MAX_REG_OFFSET == MAX_PIN_NUM \div GPFSEL_GPIO_PINS_PER_REG
GPFSEL_FIELD_BIT_WIDTH == 3
GPFSEL_FIELD_MASK == 7
GPIO_INPUT_FUNC == 0
GPIO_OUTPUT_FUNC == 1
GPIO_ALT_FUNC_0 == 4
GPIO_ALT_FUNC_1 == 5
GPIO_ALT_FUNC_2 == 6
GPIO_ALT_FUNC_3 == 7
GPIO_ALT_FUNC_4 == 3
GPIO_ALT_FUNC_5 == 2
GPIO_INVALID_FUNC == 255
OUTPUT_CTL_WRT_VAL == 1

\* pwm_channel_t (custom-driver-shared-info.h)
PWM_0 == 0
PWM_1 == 1
NOT_PWM == 2

(***************************************************************************)
(* Bounds of the model                                                     *)
(***************************************************************************)
\* pin numbers handed to the GPIO entry points are drawn from 0..MaxPinInput
\* and from FarPins
MaxPinInput == 29

(***************************************************************************)
(* 32-bit words as sets of bit positions                                   *)
(***************************************************************************)
WordBits == 0..31

\* the word holding the number n (n < 2^31)
Bits(n) == {i \in 0..30 : (n \div (2^i)) % 2 = 1}

\* w << n on a uint32_t
Shl(w, n) == {i + n : i \in w} \cap WordBits

\* w >> n
Shr(w, n) == {i - n : i \in {j \in w : j >= n}}

BitAnd(a, b) == a \cap b
BitOr(a, b) == a \cup b
BitNot(a) == WordBits \ a

\* the number a word of at most 31 significant bits holds
RECURSIVE SumPow(_)
SumPow(w) == IF w = {} THEN 0
             ELSE LET i == CHOOSE j \in w : TRUE IN 2^i + SumPow(w \ {i})
Val(w) == SumPow(w)

(***************************************************************************)
(* GPIO driver: pure helpers                                               *)
(***************************************************************************)
gpio_is_valid_pinMutNoUpperBound(pin_num) == MIN_PIN_NUM <= pin_num

gpio_is_valid_pin(pin_num) == (MIN_PIN_NUM <= pin_num) /\ (MAX_PIN_NUM >= pin_num)

gpio_is_valid_pin_func(gpio_func_type) ==
    gpio_func_type \in {GPIO_INPUT_FUNC, GPIO_OUTPUT_FUNC, GPIO_ALT_FUNC_0,
                        GPIO_ALT_FUNC_1, GPIO_ALT_FUNC_2, GPIO_ALT_FUNC_3,
                        GPIO_ALT_FUNC_4, GPIO_ALT_FUNC_5}

gpio_is_pin_pwm(pin_num) ==
    CASE pin_num \in {12, 18} -> PWM_0
      [] pin_num \in {13, 19} -> PWM_1
      [] OTHER -> NOT_PWM

gpio_determine_pwm_alt_func(pin_num) ==
    CASE pin_num \in {12, 13} -> GPIO_ALT_FUNC_0
      [] pin_num \in {18, 19} -> GPIO_ALT_FUNC_5
      [] OTHER -> GPIO_INVALID_FUNC

\* gpio_set_pin_function, lines 165-176: the word and the field of a pin
FselRegisterOffset(pin_num) == pin_num \div GPFSEL_GPIO_PINS_PER_REG
FselFieldNum(pin_num) == pin_num % GPFSEL_GPIO_PINS_PER_REG
FselShift(pin_num) == FselFieldNum(pin_num) * GPFSEL_FIELD_BIT_WIDTH

\* gpio_set_pin_function, lines 153-173: the checks made before the register
\* is touched; ENONE when all pass
FselCheckMutNoFuncCheck(pin_num, gpio_func_type) ==
    IF ~gpio_is_valid_pin(pin_num) THEN -EINVPIN
    ELSE IF GPFSEL_MAX_REG_OFFSET < FselRegisterOffset(pin_num) THEN -EINVREG
    ELSE ENONE

FselCheck(pin_num, gpio_func_type) ==
    IF ~gpio_is_valid_pin(pin_num) THEN -EINVPIN
    ELSE IF ~gpio_is_valid_pin_func(gpio_func_type) THEN -EINVFUNC
    ELSE IF GPFSEL_MAX_REG_OFFSET < FselRegisterOffset(pin_num) THEN -EINVREG
    ELSE ENONE

\* gpio_set_pin_function, lines 182-183: the value computed from the word read
FselValueMutNoClear(reg, pin_num, gpio_func_type) ==
    BitOr(reg, Shl(Bits(gpio_func_type), FselShift(pin_num)))

FselValueMutWholeWord(reg, pin_num, gpio_func_type) ==
    Shl(Bits(gpio_func_type), FselShift(pin_num))

FselValue(reg, pin_num, gpio_func_type) ==
    BitOr(BitAnd(reg, BitNot(Shl(Bits(GPFSEL_FIELD_MASK), FselShift(pin_num)))),
          Shl(Bits(gpio_func_type), FselShift(pin_num)))

\* the 3-bit function field of a pin, read back from the function-select words
FselField(fsel, pin_num) ==
    Val(BitAnd(Shr(fsel[FselRegisterOffset(pin_num)], FselShift(pin_num)),
               Bits(GPFSEL_FIELD_MASK)))

\* gpio_output_ctl: its return value, and the pin levels after its single
\* write of (1 << pin_num) to GPSET0 (do_set) or GPCLR0 (otherwise)
OutputCtlRetMutAccept(pin_num) == ENONE

OutputCtlRet(pin_num) == IF ~gpio_is_valid_pin(pin_num) THEN -EINVPIN ELSE ENONE

OutputCtlReg(do_set) == IF do_set THEN "GPSET0" ELSE "GPCLR0"

OutputCtlWordMutNoShift(pin_num) == Bits(OUTPUT_CTL_WRT_VAL)

OutputCtlWord(pin_num) == Shl(Bits(OUTPUT_CTL_WRT_VAL), pin_num)

OutputCtlLevMutInverted(lev, pin_num, do_set) ==
    IF OutputCtlRet(pin_num) # ENONE THEN lev
    ELSE IF do_set THEN lev \ OutputCtlWord(pin_num)
    ELSE lev \cup OutputCtlWord(pin_num)

OutputCtlLev(lev, pin_num, do_set) ==
    IF OutputCtlRet(pin_num) # ENONE THEN lev
    ELSE IF do_set THEN lev \cup OutputCtlWord(pin_num)
    ELSE lev \ OutputCtlWord(pin_num)

(***************************************************************************)
(* State                                                                   *)
(***************************************************************************)
VARIABLES
    gpfsel,           \* GPFSEL0..GPFSEL2: the function-select words
    gplev,            \* the output level of the pins, as GPSET0/GPCLR0 writes leave it
    gpio_func_mutex,  \* "free" or the caller that holds gpio_func_mutex
    gcall             \* one frame per thread calling into the GPIO driver

gpio_vars == <<gpfsel, gplev, gpio_func_mutex, gcall>>

(***************************************************************************)
(* GPIO driver: calls                                                      *)
(*                                                                         *)
(* A frame holds the arguments and locals of one call.  "writes" logs the  *)
(* register writes the call has made, in order.                            *)
(***************************************************************************)
GpioCallers == {"c1", "c2"}

GpioIdleFrame ==
    [op |-> "none", pin_num |-> 0, gpio_func_type |-> 0, flag |-> FALSE,
     pc |-> "idle", reg_value_to_write |-> {}, ret |-> ENONE, writes |-> <<>>]

\* pin numbers far outside the board's range (pin_num is a uint32_t)
FarPins == {32, 40, 255, 65536}
PinInputs == (0..MaxPinInput) \cup FarPins
FuncInputs == (0..8) \cup {GPIO_INVALID_FUNC}

\* prior contents of the function-select words and of the pin levels
FselPatterns ==
    { [r \in 0..GPFSEL_MAX_REG_OFFSET |-> {}],
      [r \in 0..GPFSEL_MAX_REG_OFFSET |-> WordBits],
      [r \in 0..GPFSEL_MAX_REG_OFFSET |-> {i \in WordBits : (i + r) % 2 = 0}] }
LevPatterns == { {}, WordBits }

GpioInit ==
    /\ gpfsel \in FselPatterns
    /\ gplev \in LevPatterns
    /\ gpio_func_mutex = "free"
    /\ gcall = [c \in GpioCallers |-> GpioIdleFrame]

\* mutex_lock(&gpio_func_mutex) can return only when nobody holds the mutex
GpioFuncMutexFreeMutNoLock(m) == TRUE

GpioFuncMutexFree(m) == m = "free"

\* a thread enters one of the driver's functions
GpioEnter(c, op, pin, func, flag) ==
    /\ gcall[c].pc = "idle"
    /\ gcall' = [gcall EXCEPT ![c] =
          [GpioIdleFrame EXCEPT !.op = op, !.pin_num = pin, !.gpio_func_type = func,
                                !.flag = flag,
                                !.pc = IF op = "gpio_set_pin_function"
                                       THEN "fsel_check" ELSE "entry"]]
    /\ UNCHANGED <<gpfsel, gplev, gpio_func_mutex>>

\* gpio_output_ctl (whole), and the parts of gpio_set_pin_to_output and
\* gpio_set_pin_to_pwm that precede their call of gpio_set_pin_function
GpioEntry(c) ==
    LET f == gcall[c]
        w == [reg |-> OutputCtlReg(f.flag), val |-> OutputCtlWord(f.pin_num)]
    IN
    /\ f.pc = "entry"
    /\ CASE f.op = "gpio_output_ctl" ->
              /\ gplev' = OutputCtlLev(gplev, f.pin_num, f.flag)
              /\ gcall' = [gcall EXCEPT ![c].ret = OutputCtlRet(f.pin_num),
                             ![c].pc = "done",
                             ![c].writes = IF OutputCtlRet(f.pin_num) = ENONE
                                           THEN Append(f.writes, w) ELSE f.writes]
         [] f.op = "gpio_set_pin_to_output" ->
              IF ~gpio_is_valid_pin(f.pin_num)
              THEN /\ gcall' = [gcall EXCEPT ![c].ret = -EINVPIN, ![c].pc = "done"]
                   /\ UNCHANGED gplev
              ELSE /\ gplev' = OutputCtlLev(gplev, f.pin_num, f.flag)
                   /\ gcall' = [gcall EXCEPT
                        ![c].ret = OutputCtlRet(f.pin_num),
                        ![c].pc = IF OutputCtlRet(f.pin_num) # ENONE
                                  THEN "done" ELSE "fsel_check",
                        ![c].gpio_func_type = GPIO_OUTPUT_FUNC,
                        ![c].writes = IF OutputCtlRet(f.pin_num) = ENONE
                                      THEN Append(f.writes, w) ELSE f.writes]
         [] f.op = "gpio_set_pin_to_pwm" ->
              /\ UNCHANGED gplev
              /\ IF NOT_PWM = gpio_is_pin_pwm(f.pin_num)
                 THEN gcall' = [gcall EXCEPT ![c].ret = -EINVPIN, ![c].pc = "done"]
                 ELSE IF GPIO_INVALID_FUNC = gpio_determine_pwm_alt_func(f.pin_num)
                 THEN gcall' = [gcall EXCEPT ![c].ret = -EINVFUNC, ![c].pc = "done"]
                 ELSE gcall' = [gcall EXCEPT ![c].gpio_func_type = GPIO_OUTPUT_FUNC,
                                             ![c].pc = "fsel_check"]
    /\ UNCHANGED <<gpfsel, gpio_func_mutex>>

\* gpio_set_pin_function: the argument checks
GpioFselCheck(c) ==
    LET f == gcall[c]
        error == FselCheck(f.pin_num, f.gpio_func_type)
    IN
    /\ f.pc = "fsel_check"
    /\ gcall' = [gcall EXCEPT ![c].ret = error,
                              ![c].pc = IF error # ENONE THEN "done" ELSE "fsel_lock"]
    /\ UNCHANGED <<gpfsel, gplev, gpio_func_mutex>>

\* gpio_set_pin_function: mutex_lock
GpioFselLock(c) ==
    /\ gcall[c].pc = "fsel_lock"
    /\ GpioFuncMutexFree(gpio_func_mutex)
    /\ gpio_func_mutex' = c
    /\ gcall' = [gcall EXCEPT ![c].pc = "fsel_read"]
    /\ UNCHANGED <<gpfsel, gplev>>

\* gpio_set_pin_function: read the word and compute the new value
GpioFselRead(c) ==
    LET f == gcall[c] IN
    /\ f.pc = "fsel_read"
    /\ gcall' = [gcall EXCEPT
          ![c].reg_value_to_write =
              FselValue(gpfsel[FselRegisterOffset(f.pin_num)], f.pin_num, f.gpio_func_type),
          ![c].pc = "fsel_write"]
    /\ UNCHANGED <<gpfsel, gplev, gpio_func_mutex>>

\* gpio_set_pin_function: write the word back
GpioFselWrite(c) ==
    LET f == gcall[c] IN
    /\ f.pc = "fsel_write"
    /\ gpfsel' = [gpfsel EXCEPT ![FselRegisterOffset(f.pin_num)] = f.reg_value_to_write]
    /\ gcall' = [gcall EXCEPT
          ![c].writes = Append(f.writes, [reg |-> "GPFSEL", val |-> f.reg_value_to_write]),
          ![c].pc = "fsel_unlock"]
    /\ UNCHANGED <<gplev, gpio_func_mutex>>

\* gpio_set_pin_function: mutex_unlock and return
GpioFselUnlock(c) ==
    /\ gcall[c].pc = "fsel_unlock"
    /\ gpio_func_mutex' = "free"
    /\ gcall' = [gcall EXCEPT ![c].ret = ENONE, ![c].pc = "done"]
    /\ UNCHANGED <<gpfsel, gplev>>

GpioStep(c) ==
    \/ GpioEntry(c)
    \/ GpioFselCheck(c)
    \/ GpioFselLock(c)
    \/ GpioFselRead(c)
    \/ GpioFselWrite(c)
    \/ GpioFselUnlock(c)

\* a call has returned to its caller
GpioReturn(c) ==
    /\ gcall[c].pc = "done"
    /\ gcall' = [gcall EXCEPT ![c] = GpioIdleFrame]
    /\ UNCHANGED <<gpfsel, gplev, gpio_func_mutex>>

(***************************************************************************)
(* PWM driver constants                                                    *)
(***************************************************************************)
PWM_CLK_RATE == 19200000
PWM_FREQ_4_kHZ == 4000
PWM_INVALID_FREQ == 0
\* bit positions of the enable fields PWEN_1_FIELD (1U) and PWEN_2_FIELD (1U << 8)
PWEN_1_BIT == 0
PWEN_2_BIT == 8
PWEN_1_FIELD == {PWEN_1_BIT}
PWEN_2_FIELD == {PWEN_2_BIT}
\* 0xFFFFFF00 and 0xFFFF00FF
CTL_KEEP_MASK_1 == WordBits \ (0..7)
CTL_KEEP_MASK_2 == WordBits \ (8..15)
\* the reset value of a range register, 0x20
PWM_RESET_RANGE == 32

\* duty-cycle percentages are drawn from -PercentMargin .. 100 + PercentMargin
PercentMargin == 2

(***************************************************************************)
(* PWM driver: pure helpers                                                *)
(***************************************************************************)
validate_cycle_freqMutNonZero(cycle_freq) == cycle_freq # PWM_INVALID_FREQ

validate_cycle_freq(cycle_freq) == cycle_freq = PWM_FREQ_4_kHZ

validate_pwm_channel(pwm_channel) == pwm_channel \in {PWM_0, PWM_1}

calc_pwm_range_val_from_cycle_freq(cycle_freq) ==
    IF ~validate_cycle_freq(cycle_freq) THEN 0
    ELSE PWM_CLK_RATE \div cycle_freq

\* the first check hands the range value to validate_cycle_freq
calc_pwm_data_val_from_percent(percent, pwm_range_val) ==
    IF ~validate_cycle_freq(pwm_range_val) THEN 0
    ELSE IF 100 <= percent THEN pwm_range_val
    ELSE IF 0 >= percent THEN 0
    ELSE (pwm_range_val \div 100) * percent

\* pwm_get_channel_range_val: its return value and the value it stores
GetChannelRangeRet(pwm_channel) ==
    IF pwm_channel \in {PWM_0, PWM_1} THEN ENONE ELSE -EINVFUNC

GetChannelRangeVal(perph, pwm_channel) ==
    CASE pwm_channel = PWM_0 -> perph.rng_1
      [] pwm_channel = PWM_1 -> perph.rng_2
      [] OTHER -> 0

\* pwm_set_channel_data_val
SetChannelDataVal(perph, pwm_channel, data_val) ==
    CASE pwm_channel = PWM_0 -> [perph EXCEPT !.dat_1 = data_val]
      [] pwm_channel = PWM_1 -> [perph EXCEPT !.dat_2 = data_val]
      [] OTHER -> perph

\* pwm_set_duty_cycle, line 321: the check that rejects the call at entry
DutyCycleRejects(pwm_channel) == validate_pwm_channel(pwm_channel)

\* pwm_init_pwm_channel, lines 162 and 176: ctl &= mask of the other channel
InitClearCtlMutClearsWord(ctl, pwm_channel) == {}

InitClearCtlMutKeepsWord(ctl, pwm_channel) == ctl

InitClearCtlMutKeepsEnable(ctl, pwm_channel) ==
    CASE pwm_channel = PWM_0 -> BitAnd(ctl, CTL_KEEP_MASK_1) \cup (ctl \cap {0})
      [] pwm_channel = PWM_1 -> BitAnd(ctl, CTL_KEEP_MASK_2) \cup (ctl \cap {8})
      [] OTHER -> ctl

InitClearCtl(ctl, pwm_channel) ==
    CASE pwm_channel = PWM_0 -> BitAnd(ctl, CTL_KEEP_MASK_1)
      [] pwm_channel = PWM_1 -> BitAnd(ctl, CTL_KEEP_MASK_2)
      [] OTHER -> ctl

\* the enable field of a channel (pwm_enable, lines 354-367)
EnableField(pwm_channel) ==
    CASE pwm_channel = PWM_0 -> PWEN_1_FIELD
      [] pwm_channel = PWM_1 -> PWEN_2_FIELD
      [] OTHER -> {}

VARIABLES
    pwm_perph,   \* the mapped PWM registers: ctl, rng_1, dat_1, rng_2, dat_2
    pwm_mutex,   \* "free" or the caller that holds pwm_mutex
    pcall        \* one frame per thread calling into the PWM driver

pwm_vars == <<pwm_perph, pwm_mutex, pcall>>

(***************************************************************************)
(* PWM driver: calls                                                       *)
(***************************************************************************)
PwmCallers == {"p1", "p2"}

PwmIdleFrame ==
    [op |-> "none", pwm_channel |-> PWM_0, duty_cycle |-> 0, cycle_freq |-> 0,
     flag |-> FALSE, pc |-> "idle", range_val |-> 0, data_val |-> 0,
     ctl_read |-> {}, ret |-> ENONE, writes |-> <<>>]

ChannelInputs == {PWM_0, PWM_1, NOT_PWM, 3}
PercentInputs == (0 - PercentMargin)..(100 + PercentMargin)
FreqInputs == {PWM_INVALID_FREQ, PWM_FREQ_4_kHZ, 1000, 4800}
RangeInputs == {0, PWM_RESET_RANGE, 100, 150, PWM_FREQ_4_kHZ, 4800}

\* prior contents of the PWM registers
PwmPatterns ==
    { [ctl |-> {}, rng_1 |-> PWM_RESET_RANGE, dat_1 |-> 0,
       rng_2 |-> PWM_RESET_RANGE, dat_2 |-> 0],
      [ctl |-> WordBits, rng_1 |-> 4800, dat_1 |-> 2400,
       rng_2 |-> PWM_FREQ_4_kHZ, dat_2 |-> 1000],
      [ctl |-> {i \in WordBits : i % 2 = 1}, rng_1 |-> PWM_FREQ_4_kHZ, dat_1 |-> 40,
       rng_2 |-> 4800, dat_2 |-> 4800] }

PwmInit ==
    /\ pwm_perph \in PwmPatterns
    /\ pwm_mutex = "free"
    /\ pcall = [c \in PwmCallers |-> PwmIdleFrame]

\* the frame of a thread that has just entered one of the driver's functions
PwmEntered(op, ch, duty, freq, flag, range) ==
    [PwmIdleFrame EXCEPT !.op = op, !.pwm_channel = ch, !.duty_cycle = duty,
                         !.cycle_freq = freq, !.flag = flag, !.range_val = range,
                         !.pc = "entry"]

PwmEnter(c, op, ch, duty, freq, flag, range) ==
    /\ pcall[c].pc = "idle"
    /\ pcall' = [pcall EXCEPT ![c] = PwmEntered(op, ch, duty, freq, flag, range)]
    /\ UNCHANGED <<pwm_perph, pwm_mutex>>

\* what each function does before it takes the mutex
PwmEntry(c) ==
    LET f == pcall[c]
        range == calc_pwm_range_val_from_cycle_freq(f.cycle_freq)
    IN
    /\ f.pc = "entry"
    /\ CASE f.op = "calc_pwm_data_val_from_percent" ->
              pcall' = [pcall EXCEPT
                  ![c].data_val = calc_pwm_data_val_from_percent(f.duty_cycle, f.range_val),
                  ![c].pc = "done"]
         [] f.op = "pwm_init_user_device" ->
              IF 0 = range
              THEN pcall' = [pcall EXCEPT ![c].ret = -EINVFUNC, ![c].pc = "done"]
              ELSE pcall' = [pcall EXCEPT
                  ![c].range_val = range,
                  ![c].data_val = calc_pwm_data_val_from_percent(f.duty_cycle, range),
                  ![c].pc = "init_lock"]
         [] f.op = "pwm_reset_pwm_channels" ->
              pcall' = [pcall EXCEPT ![c].pwm_channel = PWM_0, ![c].data_val = 0,
                                     ![c].range_val = PWM_RESET_RANGE,
                                     ![c].flag = FALSE, ![c].pc = "init_lock"]
         [] f.op = "pwm_set_duty_cycle" ->
              IF DutyCycleRejects(f.pwm_channel)
              THEN pcall' = [pcall EXCEPT ![c].ret = -EINVFUNC, ![c].pc = "done"]
              ELSE pcall' = [pcall EXCEPT ![c].range_val = 0, ![c].data_val = 0,
                                          ![c].pc = "duty_lock"]
         [] f.op = "pwm_enable" ->
              IF f.pwm_channel \notin {PWM_0, PWM_1}
              THEN pcall' = [pcall EXCEPT ![c].ret = -EINVFUNC, ![c].pc = "done"]
              ELSE pcall' = [pcall EXCEPT ![c].pc = "enable_lock"]
    /\ UNCHANGED <<pwm_perph, pwm_mutex>>

\* mutex_lock(&pwm_mutex) can return only when nobody holds the mutex
PwmMutexFreeMutNoLock(m) == TRUE

PwmMutexFree(m) == m = "free"

\* mutex_lock(&pwm_mutex) in any of the three functions
PwmLock(c) ==
    LET f == pcall[c] IN
    /\ f.pc \in {"init_lock", "duty_lock", "enable_lock"}
    /\ PwmMutexFree(pwm_mutex)
    /\ pwm_mutex' = c
    /\ pcall' = [pcall EXCEPT ![c].pc =
          CASE f.pc = "init_lock" -> "init_clear"
            [] f.pc = "duty_lock" -> "duty_body"
            [] f.pc = "enable_lock" -> "enable_body"]
    /\ UNCHANGED pwm_perph

\* pwm_init_pwm_channel: the switch; the read of ctl &= mask, or the default
\* branch
PwmInitClear(c) ==
    LET f == pcall[c] IN
    /\ f.pc = "init_clear"
    /\ IF f.pwm_channel \in {PWM_0, PWM_1}
       THEN pcall' = [pcall EXCEPT ![c].ctl_read = pwm_perph.ctl,
                                   ![c].pc = "init_clear_write"]
       ELSE pcall' = [pcall EXCEPT ![c].ret = -EINVFUNC, ![c].pc = "unlock"]
    /\ UNCHANGED <<pwm_perph, pwm_mutex>>

\* pwm_init_pwm_channel: the write of ctl &= mask
PwmInitClearWrite(c) ==
    LET f == pcall[c]
        v == InitClearCtl(f.ctl_read, f.pwm_channel)
    IN
    /\ f.pc = "init_clear_write"
    /\ pwm_perph' = [pwm_perph EXCEPT !.ctl = v]
    /\ pcall' = [pcall EXCEPT
          ![c].writes = Append(f.writes, [reg |-> "ctl", val |-> v]),
          ![c].pc = "init_dat"]
    /\ UNCHANGED pwm_mutex

\* pwm_init_pwm_channel: dat_x = initial_data_value
PwmInitDat(c) ==
    LET f == pcall[c] IN
    /\ f.pc = "init_dat"
    /\ pwm_perph' = SetChannelDataVal(pwm_perph, f.pwm_channel, f.data_val)
    /\ pcall' = [pcall EXCEPT
          ![c].writes = Append(f.writes, [reg |-> "dat", val |-> f.data_val]),
          ![c].pc = "init_rng"]
    /\ UNCHANGED pwm_mutex

\* pwm_init_pwm_channel: rng_x = initial_range_value
PwmInitRng(c) ==
    LET f == pcall[c] IN
    /\ f.pc = "init_rng"
    /\ pwm_perph' = IF f.pwm_channel = PWM_0
                    THEN [pwm_perph EXCEPT !.rng_1 = f.range_val]
                    ELSE [pwm_perph EXCEPT !.rng_2 = f.range_val]
    /\ pcall' = [pcall EXCEPT
          ![c].writes = Append(f.writes, [reg |-> "rng", val |-> f.range_val]),
          ![c].pc = "init_enable"]
    /\ UNCHANGED pwm_mutex

\* pwm_init_pwm_channel: if (is_enabled_initially), the read of
\* ctl |= PWEN_x_FIELD
PwmInitEnable(c) ==
    LET f == pcall[c] IN
    /\ f.pc = "init_enable"
    /\ IF f.flag
       THEN pcall' = [pcall EXCEPT ![c].ctl_read = pwm_perph.ctl,
                                   ![c].pc = "init_enable_write"]
       ELSE pcall' = [pcall EXCEPT ![c].ret = ENONE, ![c].pc = "unlock"]
    /\ UNCHANGED <<pwm_perph, pwm_mutex>>

\* pwm_init_pwm_channel: the write of ctl |= PWEN_x_FIELD
PwmInitEnableWrite(c) ==
    LET f == pcall[c]
        v == BitOr(f.ctl_read, EnableField(f.pwm_channel))
    IN
    /\ f.pc = "init_enable_write"
    /\ pwm_perph' = [pwm_perph EXCEPT !.ctl = v]
    /\ pcall' = [pcall EXCEPT
          ![c].writes = Append(f.writes, [reg |-> "ctl", val |-> v]),
          ![c].ret = ENONE, ![c].pc = "unlock"]
    /\ UNCHANGED pwm_mutex

\* pwm_set_duty_cycle under the mutex: read the range, compute, write the data
PwmDutyBodyMutReturnsLocked(c) ==
    LET f == pcall[c]
        error == GetChannelRangeRet(f.pwm_channel)
        range == GetChannelRangeVal(pwm_perph, f.pwm_channel)
        data == calc_pwm_data_val_from_percent(f.duty_cycle, range)
    IN
    /\ f.pc = "duty_body"
    /\ IF error # ENONE
       THEN /\ pcall' = [pcall EXCEPT ![c].ret = error, ![c].pc = "done"]
            /\ UNCHANGED pwm_perph
       ELSE /\ pwm_perph' = SetChannelDataVal(pwm_perph, f.pwm_channel, data)
            /\ pcall' = [pcall EXCEPT
                  ![c].range_val = range, ![c].data_val = data,
                  ![c].writes = Append(f.writes, [reg |-> "dat", val |-> data]),
                  ![c].ret = error, ![c].pc = "unlock"]
    /\ UNCHANGED pwm_mutex

PwmDutyBody(c) ==
    LET f == pcall[c]
        error == GetChannelRangeRet(f.pwm_channel)
        range == GetChannelRangeVal(pwm_perph, f.pwm_channel)
        data == calc_pwm_data_val_from_percent(f.duty_cycle, range)
    IN
    /\ f.pc = "duty_body"
    /\ IF error # ENONE
       THEN /\ pcall' = [pcall EXCEPT ![c].ret = error, ![c].pc = "unlock"]
            /\ UNCHANGED pwm_perph
       ELSE /\ pwm_perph' = SetChannelDataVal(pwm_perph, f.pwm_channel, data)
            /\ pcall' = [pcall EXCEPT
                  ![c].range_val = range, ![c].data_val = data,
                  ![c].writes = Append(f.writes, [reg |-> "dat", val |-> data]),
                  ![c].ret = error, ![c].pc = "unlock"]
    /\ UNCHANGED pwm_mutex

\* pwm_enable under the mutex: the read of ctl |= ctl_field or of
\* ctl &= ~ctl_field
PwmEnableBody(c) ==
    /\ pcall[c].pc = "enable_body"
    /\ pcall' = [pcall EXCEPT ![c].ctl_read = pwm_perph.ctl, ![c].pc = "enable_write"]
    /\ UNCHANGED <<pwm_perph, pwm_mutex>>

\* pwm_enable: the write of ctl |= ctl_field or of ctl &= ~ctl_field
PwmEnableWrite(c) ==
    LET f == pcall[c]
        ctl_field == EnableField(f.pwm_channel)
        v == IF f.flag THEN BitOr(f.ctl_read, ctl_field)
             ELSE BitAnd(f.ctl_read, BitNot(ctl_field))
    IN
    /\ f.pc = "enable_write"
    /\ pwm_perph' = [pwm_perph EXCEPT !.ctl = v]
    /\ pcall' = [pcall EXCEPT
          ![c].writes = Append(f.writes, [reg |-> "ctl", val |-> v]),
          ![c].ret = ENONE, ![c].pc = "unlock"]
    /\ UNCHANGED pwm_mutex

\* mutex_unlock(&pwm_mutex) and return; pwm_reset_pwm_channels goes on to
\* its second call of pwm_init_pwm_channel
PwmUnlock(c) ==
    LET f == pcall[c] IN
    /\ f.pc = "unlock"
    /\ pwm_mutex' = "free"
    /\ IF f.op = "pwm_reset_pwm_channels" /\ f.pwm_channel = PWM_0
       THEN pcall' = [pcall EXCEPT ![c].pwm_channel = PWM_1, ![c].pc = "init_lock"]
       ELSE pcall' = [pcall EXCEPT ![c].pc = "done"]
    /\ UNCHANGED pwm_perph

PwmStep(c) ==
    \/ PwmEntry(c)
    \/ PwmLock(c)
    \/ PwmInitClear(c)
    \/ PwmInitClearWrite(c)
    \/ PwmInitDat(c)
    \/ PwmInitRng(c)
    \/ PwmInitEnable(c)
    \/ PwmInitEnableWrite(c)
    \/ PwmDutyBody(c)
    \/ PwmEnableBody(c)
    \/ PwmEnableWrite(c)
    \/ PwmUnlock(c)

(***************************************************************************)
(* LED driver constants                                                    *)
(***************************************************************************)
FIRST_LED_PIN == 22
MAX_LED_DEVICES == 2
MSG_BUF_MAX_SIZE == 7
LED_OFF == 0
LED_ON == 1
LED_BLINK == 2
\* errno.h values the driver returns
EMSGSIZE == 90
EINVAL == 22
ENOMEM == 12
\* a NULL task pointer; a live handle is a thread number >= 1 and an
\* ERR_PTR value is negative
NULL_THREAD == 0

\* kthread_run can succeed at most MaxThreads times per device; after that
\* it fails, as it may at any time
MaxThreads == 2

Devs == 0..(MAX_LED_DEVICES - 1)
Tids == 1..MaxThreads

IS_ERR(ptr) == ptr < 0

(***************************************************************************)
(* LED driver: command parsing                                             *)
(*                                                                         *)
(* A C string is a sequence of characters ending with "NUL".               *)
(***************************************************************************)
NUL == "NUL"

led_write_word_cmds ==
    << <<"O", "F", "F", NUL>>,
       <<"O", "N", NUL>>,
       <<"T", "O", "G", "G", "L", "E", NUL>>,
       <<"B", "L", "I", "N", "K", NUL>> >>

led_write_num_cmds == << <<"0", NUL>>, <<"1", NUL>>, <<"2", NUL>>, <<"3", NUL>> >>

\* tolower on the characters that occur
ToLower(ch) ==
    CASE ch = "O" -> "o" [] ch = "F" -> "f" [] ch = "N" -> "n" [] ch = "T" -> "t"
      [] ch = "G" -> "g" [] ch = "L" -> "l" [] ch = "E" -> "e" [] ch = "B" -> "b"
      [] ch = "I" -> "i" [] ch = "K" -> "k" [] ch = "A" -> "a" [] ch = "X" -> "x"
      [] OTHER -> ch

\* strncasecmp(s1, s2, n) = 0, comparing from position i on
RECURSIVE StrNCaseEqFrom(_, _, _, _)
StrNCaseEqFrom(s1, s2, n, i) ==
    IF i > n THEN TRUE
    ELSE IF ToLower(s1[i]) # ToLower(s2[i]) THEN FALSE
    ELSE IF s1[i] = NUL THEN TRUE
    ELSE StrNCaseEqFrom(s1, s2, n, i + 1)

StrNCaseEq(s1, s2, n) == StrNCaseEqFrom(s1, s2, n, 1)

\* the if-else chain of led_write, lines 382-456: the index of the command
\* (0 off, 1 on, 2 toggle, 3 blink) or -1 for an unsupported command
CmdMatches(k, msg_buffer, len) ==
    \/ StrNCaseEq(led_write_word_cmds[k + 1], msg_buffer, len)
    \/ StrNCaseEq(led_write_num_cmds[k + 1], msg_buffer, len)

CMD_OFF == 0
CMD_ON == 1
CMD_TOGGLE == 2
CMD_BLINK == 3
CMD_UNSUPPORTED == -1

Dispatch(msg_buffer, len) ==
    IF CmdMatches(CMD_OFF, msg_buffer, len) THEN CMD_OFF
    ELSE IF CmdMatches(CMD_ON, msg_buffer, len) THEN CMD_ON
    ELSE IF CmdMatches(CMD_TOGGLE, msg_buffer, len) THEN CMD_TOGGLE
    ELSE IF CmdMatches(CMD_BLINK, msg_buffer, len) THEN CMD_BLINK
    ELSE CMD_UNSUPPORTED

\* copy_from_user(&msg_buffer, user_buffer, len) returning uncopied, the
\* number of bytes it could not copy (0 on success): the bytes copied
\* overwrite the start of the buffer, the uncopied ones are zero-filled and
\* the rest of the buffer keeps its old content
CopyFromUser(msg_buffer, user_buffer, len, uncopied) ==
    [i \in 1..MSG_BUF_MAX_SIZE |->
        IF i <= len - uncopied THEN user_buffer[i]
        ELSE IF i <= len THEN NUL
        ELSE msg_buffer[i]]

get_led_state_from_physical_stateMutInverted(led_dev) ==
    IF led_dev.is_led_on THEN LED_OFF ELSE LED_ON

get_led_state_from_physical_state(led_dev) ==
    IF led_dev.is_led_on THEN LED_ON ELSE LED_OFF

\* clear_led_blinking, line 237: whether a blink thread is to be stopped
BlinkToClearMutNever(led_dev) == FALSE

BlinkToClear(led_dev) == LED_BLINK = led_dev.led_state

\* !(led_dev->is_led_on)
Toggled(is_led_on) == ~is_led_on

\* led_write, lines 389, 405 and 421: the level the command writes
CmdLevel(cmd, is_led_on) ==
    CASE cmd = CMD_OFF -> FALSE
      [] cmd = CMD_ON -> TRUE
      [] OTHER -> Toggled(is_led_on)

\* led_write, lines 395, 411 and 427: the is_led_on the command stores
CmdFlagMutToggleKeeps(cmd, is_led_on) ==
    CASE cmd = CMD_OFF -> FALSE
      [] cmd = CMD_ON -> TRUE
      [] OTHER -> is_led_on

CmdFlag(cmd, is_led_on) ==
    CASE cmd = CMD_OFF -> FALSE
      [] cmd = CMD_ON -> TRUE
      [] OTHER -> Toggled(is_led_on)

VARIABLES
    led_dev_array,  \* per device: pin_num, is_led_on, led_state, msg_buffer, p_blink_thread
    kthreads,       \* per device and thread number: where the blink thread is, and
                    \* whether kthread_stop has asked it to stop
    wcall,          \* one frame per thread inside led_write
    last_out,       \* per device: who made the last output write on its pin
    led_exit,       \* the thread running led_driver_exit: where it is, the device
                    \* it works on and, per device, the thread it stopped
    led_init        \* the thread running led_driver_init: where it is, its locals,
                    \* and per device whether its cdev is added and what
                    \* p_device holds

led_vars == <<led_dev_array, kthreads, wcall, last_out, led_exit, led_init>>

VARIABLES
    iomap,     \* per driver ("gpio", "pwm"): the state of its register mapping, "none"
               \* before ioremap, "live", "failed" (ioremap returned NULL) or
               \* "released" (after iounmap)
    init_ret,  \* per driver: what its init function last returned
    stray      \* the drivers that have accessed a register while their mapping
               \* was not live

life_vars == <<iomap, init_ret, stray>>

vars == <<gpfsel, gplev, gpio_func_mutex, gcall, pwm_perph, pwm_mutex, pcall,
          led_dev_array, kthreads, wcall, last_out, led_exit, led_init,
          iomap, init_ret, stray>>

(***************************************************************************)
(* LED driver                                                              *)
(***************************************************************************)
\* the threads that may be inside led_write: <<device, opener>>
Writers == Devs \X {1, 2}
WriterDev(w) == w[1]

WriteIdleFrame ==
    [user_buffer |-> <<>>, len |-> 0, pc |-> "idle", cmd |-> CMD_UNSUPPORTED,
     uncopied |-> 0, ret |-> 0, stopped |-> NULL_THREAD]

UnusedThread == [pc |-> "unused", should_stop |-> FALSE]

\* led_driver_exit has not been called
ExitIdleFrame ==
    [pc |-> "none", led_num |-> 0, stopped |-> [d \in Devs |-> NULL_THREAD]]

\* led_driver_init has not been called
InitIdleFrame ==
    [pc |-> "none", led_num |-> 0, error |-> ENONE, devices_successfully_inited |-> 0,
     first_pin |-> FIRST_LED_PIN,
     cdev |-> [d \in Devs |-> FALSE], p_device |-> [d \in Devs |-> "NULL"]]

\* led_driver_init has returned ENONE with every device created
InitDoneFrame ==
    [InitIdleFrame EXCEPT !.pc = "done", !.led_num = MAX_LED_DEVICES,
                          !.devices_successfully_inited = MAX_LED_DEVICES,
                          !.cdev = [d \in Devs |-> TRUE],
                          !.p_device = [d \in Devs |-> "device"]]

\* a blink thread that has been created and has not yet exited
Live(d, t) == kthreads[d][t].pc \notin {"unused", "exited"}
LiveThreads(d) == {t \in Tids : Live(d, t)}

\* led_dev_init, lines 258-272, on a zero-initialised led_dev_t
LedDevInitMutSamePin(led_dev_index) ==
    [pin_num |-> FIRST_LED_PIN,
     is_led_on |-> FALSE,
     led_state |-> LED_OFF,
     msg_buffer |-> [i \in 1..MSG_BUF_MAX_SIZE |-> NUL],
     p_blink_thread |-> NULL_THREAD]

LedDevInit(led_dev_index) ==
    [pin_num |-> FIRST_LED_PIN + led_dev_index,
     is_led_on |-> FALSE,
     led_state |-> LED_OFF,
     msg_buffer |-> [i \in 1..MSG_BUF_MAX_SIZE |-> NUL],
     p_blink_thread |-> NULL_THREAD]

\* gpio_set_pin_to_output(pin, false) as led_dev_init calls it for each
\* device in turn: the level write, then the function-select write
RECURSIVE LevAfterInit(_, _)
LevAfterInit(lev, n) ==
    IF n = 0 THEN lev
    ELSE OutputCtlLev(LevAfterInit(lev, n - 1), FIRST_LED_PIN + (n - 1), FALSE)

RECURSIVE FselAfterInit(_, _)
FselAfterInit(fsel, n) ==
    IF n = 0 THEN fsel
    ELSE LET prev == FselAfterInit(fsel, n - 1)
             pin == FIRST_LED_PIN + (n - 1)
         IN [prev EXCEPT ![FselRegisterOffset(pin)] =
                FselValue(prev[FselRegisterOffset(pin)], pin, GPIO_OUTPUT_FUNC)]

\* the state once led_driver_init has returned ENONE
LedInit ==
    /\ \E fsel \in FselPatterns : gpfsel = FselAfterInit(fsel, MAX_LED_DEVICES)
    /\ \E lev \in LevPatterns : gplev = LevAfterInit(lev, MAX_LED_DEVICES)
    /\ gpio_func_mutex = "free"
    /\ gcall = [c \in GpioCallers |-> GpioIdleFrame]
    /\ led_dev_array = [d \in Devs |-> LedDevInit(d)]
    /\ kthreads = [d \in Devs |-> [t \in Tids |-> UnusedThread]]
    /\ wcall = [w \in Writers |-> WriteIdleFrame]
    /\ last_out = [d \in Devs |-> "init"]
    /\ led_exit = ExitIdleFrame
    /\ led_init = InitDoneFrame

\* the user buffers written to a device
MsgInputs ==
    { <<"0">>, <<"1">>, <<"2">>, <<"3">>, <<"x">>, <<>>,
      <<"b", "l", "i", "n", "k", "i", "n", "g">>,
      <<"o">>, <<"O", "F", "F">>, <<"o", "f", "f">>, <<"o", "f", "f", NUL>> }

\* led_write, lines 382-456: clear_led_blinking is called inside the branch
\* of each of the four commands and not in the final else
AfterDispatchMutClearsFirst(cmd) == "clear_led_blinking"

AfterDispatch(cmd) == IF cmd = CMD_UNSUPPORTED THEN "act" ELSE "clear_led_blinking"

\* led_write, line 353: the message is too large for msg_buffer
MessageTooLongMutOffByOne(len) == MSG_BUF_MAX_SIZE + 1 < len

MessageTooLong(len) == MSG_BUF_MAX_SIZE < len

\* led_write, line 359: there is nothing to write
NothingToWriteMutNever(len) == FALSE

NothingToWrite(len) == 0 >= len

\* write(fd, user_buffer, len) enters led_write
LedWriteEnter(w, user_buffer) ==
    /\ wcall[w].pc \in {"idle", "done"}
    /\ wcall' = [wcall EXCEPT ![w] =
          [WriteIdleFrame EXCEPT !.user_buffer = user_buffer, !.len = Len(user_buffer),
                                 !.pc = "entry"]]
    /\ UNCHANGED <<gpio_vars, led_dev_array, kthreads, last_out>>

\* led_write, lines 353-456: the length checks, the copy and the dispatch
LedWriteEntry(w) ==
    LET f == wcall[w]
        d == WriterDev(w)
    IN
    /\ f.pc = "entry"
    /\ IF MessageTooLong(f.len)
       THEN /\ wcall' = [wcall EXCEPT ![w].ret = -EMSGSIZE, ![w].pc = "done"]
            /\ UNCHANGED led_dev_array
       ELSE IF NothingToWrite(f.len)
       THEN /\ wcall' = [wcall EXCEPT ![w].ret = 0, ![w].pc = "done"]
            /\ UNCHANGED led_dev_array
       ELSE \E error \in 0..f.len :
            LET buf == CopyFromUser(led_dev_array[d].msg_buffer, f.user_buffer,
                                    f.len, error)
                cmd == Dispatch(buf, f.len)
            IN
            /\ led_dev_array' = [led_dev_array EXCEPT ![d].msg_buffer = buf]
            /\ IF ENONE # error
               THEN wcall' = [wcall EXCEPT ![w].uncopied = error, ![w].ret = error,
                                           ![w].pc = "done"]
               ELSE wcall' = [wcall EXCEPT ![w].cmd = cmd, ![w].pc = AfterDispatch(cmd)]
    /\ UNCHANGED <<gpio_vars, kthreads, last_out>>

\* clear_led_blinking up to its call of kthread_stop, which sets the
\* thread's should-stop flag and then waits for the thread to exit.  Its
\* return value is not looked at by led_write.  kthread_stop on a pointer
\* that is no live thread (an ERR_PTR value, or a thread that has exited) is
\* an invalid access: the call never returns ("oops").
LedWriteClearBlinking(w) ==
    LET f == wcall[w]
        d == WriterDev(w)
        t == led_dev_array[d].p_blink_thread
    IN
    /\ f.pc = "clear_led_blinking"
    /\ IF BlinkToClear(led_dev_array[d]) /\ t # NULL_THREAD
       THEN IF t \in Tids /\ Live(d, t)
            THEN /\ kthreads' = [kthreads EXCEPT ![d][t].should_stop = TRUE]
                 /\ wcall' = [wcall EXCEPT ![w].stopped = t, ![w].pc = "kthread_stop"]
            ELSE /\ wcall' = [wcall EXCEPT ![w].pc = "oops"]
                 /\ UNCHANGED kthreads
       ELSE /\ wcall' = [wcall EXCEPT ![w].pc = "act"]
            /\ UNCHANGED kthreads
    /\ UNCHANGED <<gpio_vars, led_dev_array, last_out>>

\* kthread_stop waits for the thread's exit (wait_for_completion): it
\* returns once the thread has exited
KthreadStopReturnsMutNoWait(thread) == TRUE

KthreadStopReturns(thread) == thread.pc = "exited"

\* clear_led_blinking, line 246: kthread_stop returns
LedWriteStopReturns(w) ==
    LET f == wcall[w]
        d == WriterDev(w)
    IN
    /\ f.pc = "kthread_stop"
    /\ KthreadStopReturns(kthreads[d][f.stopped])
    /\ wcall' = [wcall EXCEPT ![w].pc = "act"]
    /\ UNCHANGED <<gpio_vars, led_dev_array, kthreads, last_out>>

\* the command's own step: gpio_output_ctl for off, on and toggle,
\* kthread_run for blink, return -EUNSUPCMD in the final else.  kthread_run
\* may fail, and then the ERR_PTR value it returned is what p_blink_thread
\* holds.
LedWriteAct(w) ==
    LET f == wcall[w]
        d == WriterDev(w)
        dev == led_dev_array[d]
        level == CmdLevel(f.cmd, dev.is_led_on)
        error == OutputCtlRet(dev.pin_num)
        fresh == Tids \ {t \in Tids : kthreads[d][t].pc # "unused"}
    IN
    /\ f.pc = "act"
    /\ IF f.cmd = CMD_UNSUPPORTED
       THEN /\ wcall' = [wcall EXCEPT ![w].ret = -EUNSUPCMD, ![w].pc = "done"]
            /\ UNCHANGED <<gplev, last_out, led_dev_array, kthreads>>
       ELSE IF f.cmd = CMD_BLINK
       THEN /\ \E ok \in BOOLEAN :
                 IF ok /\ fresh # {}
                 THEN LET t == CHOOSE x \in fresh : \A y \in fresh : x <= y IN
                      /\ kthreads' = [kthreads EXCEPT ![d][t].pc = "created"]
                      /\ led_dev_array' = [led_dev_array EXCEPT ![d].p_blink_thread = t]
                      /\ wcall' = [wcall EXCEPT ![w].pc = "set_blink"]
                 ELSE /\ led_dev_array' = [led_dev_array EXCEPT ![d].p_blink_thread = -ENOMEM]
                      /\ wcall' = [wcall EXCEPT ![w].ret = -ENOMEM, ![w].pc = "done"]
                      /\ UNCHANGED kthreads
            /\ UNCHANGED <<gplev, last_out>>
       ELSE /\ gplev' = OutputCtlLev(gplev, dev.pin_num, level)
            /\ last_out' = IF error = ENONE THEN [last_out EXCEPT ![d] = "led_write"]
                           ELSE last_out
            /\ wcall' = IF error # ENONE
                        THEN [wcall EXCEPT ![w].ret = error, ![w].pc = "done"]
                        ELSE [wcall EXCEPT ![w].pc = "update"]
            /\ UNCHANGED <<led_dev_array, kthreads>>
    /\ UNCHANGED <<gpfsel, gpio_func_mutex, gcall>>

\* the stores that follow a successful gpio_output_ctl, and return len
LedWriteUpdate(w) ==
    LET f == wcall[w]
        d == WriterDev(w)
        dev == led_dev_array[d]
        on == CmdFlag(f.cmd, dev.is_led_on)
    IN
    /\ f.pc = "update"
    /\ led_dev_array' = [led_dev_array EXCEPT
          ![d].is_led_on = on,
          ![d].led_state =
              CASE f.cmd = CMD_OFF -> LED_OFF
                [] f.cmd = CMD_ON -> LED_ON
                [] OTHER -> get_led_state_from_physical_state([dev EXCEPT !.is_led_on = on])]
    /\ wcall' = [wcall EXCEPT ![w].ret = f.len, ![w].pc = "done"]
    /\ UNCHANGED <<gpio_vars, kthreads, last_out>>

\* led_write, line 449: led_state = LED_BLINK, and return len
LedWriteSetBlink(w) ==
    LET f == wcall[w]
        d == WriterDev(w)
    IN
    /\ f.pc = "set_blink"
    /\ led_dev_array' = [led_dev_array EXCEPT ![d].led_state = LED_BLINK]
    /\ wcall' = [wcall EXCEPT ![w].ret = f.len, ![w].pc = "done"]
    /\ UNCHANGED <<gpio_vars, kthreads, last_out>>

\* led_read, lines 336-340: the whole function is a printk and the return
\* of -EINVAL; user_buffer is the caller's buffer, which is not written
led_readMutReturnsNothing(len) == 0

led_read(len) == -EINVAL

LedRead(w, user_buffer) ==
    /\ wcall[w].pc \in {"idle", "read_done"}
    /\ wcall' = [wcall EXCEPT ![w] =
          [WriteIdleFrame EXCEPT !.user_buffer = user_buffer, !.len = Len(user_buffer),
                                 !.ret = led_read(Len(user_buffer)), !.pc = "read_done"]]
    /\ UNCHANGED <<gpio_vars, led_dev_array, kthreads, last_out>>

LedWriteStep(w) ==
    \/ LedWriteEntry(w)
    \/ LedWriteClearBlinking(w)
    \/ LedWriteStopReturns(w)
    \/ LedWriteAct(w)
    \/ LedWriteUpdate(w)
    \/ LedWriteSetBlink(w)

(***************************************************************************)
(* The blink thread, led_blink                                             *)
(***************************************************************************)
\* the new thread is scheduled for the first time: the kernel calls
\* led_blink unless kthread_stop has already been called for the thread, in
\* which case the thread exits without ever running led_blink
BlinkStart(d, t) ==
    /\ kthreads[d][t].pc = "created"
    /\ kthreads' = [kthreads EXCEPT ![d][t].pc =
          IF kthreads[d][t].should_stop THEN "exited" ELSE "loop"]
    /\ UNCHANGED <<gpio_vars, led_dev_array, wcall, last_out>>

\* while (!kthread_should_stop()), and the msleep_interruptible that
\* precedes the next test
BlinkLoopTestMutIgnoresStop(d, t) ==
    /\ kthreads[d][t].pc = "loop"
    /\ kthreads' = [kthreads EXCEPT ![d][t].pc = "toggle_write"]
    /\ UNCHANGED <<gpio_vars, led_dev_array, wcall, last_out>>

BlinkLoopTest(d, t) ==
    /\ kthreads[d][t].pc = "loop"
    /\ kthreads' = [kthreads EXCEPT ![d][t].pc =
          IF kthreads[d][t].should_stop THEN "final_write" ELSE "toggle_write"]
    /\ UNCHANGED <<gpio_vars, led_dev_array, wcall, last_out>>

\* led_blink, line 483: gpio_output_ctl(pin_num, !is_led_on); a failure
\* leaves the loop by the error path
BlinkToggleWrite(d, t) ==
    LET dev == led_dev_array[d]
        error == OutputCtlRet(dev.pin_num)
    IN
    /\ kthreads[d][t].pc = "toggle_write"
    /\ gplev' = OutputCtlLev(gplev, dev.pin_num, Toggled(dev.is_led_on))
    /\ last_out' = IF error = ENONE THEN [last_out EXCEPT ![d] = "led_blink"] ELSE last_out
    /\ kthreads' = [kthreads EXCEPT ![d][t].pc =
          IF error # ENONE THEN "error_exit" ELSE "toggle_flag"]
    /\ UNCHANGED <<gpfsel, gpio_func_mutex, gcall, led_dev_array, wcall>>

\* led_blink, line 496: is_led_on = !is_led_on, then sleep
BlinkToggleFlag(d, t) ==
    /\ kthreads[d][t].pc = "toggle_flag"
    /\ led_dev_array' = [led_dev_array EXCEPT
          ![d].is_led_on = Toggled(led_dev_array[d].is_led_on)]
    /\ kthreads' = [kthreads EXCEPT ![d][t].pc = "loop"]
    /\ UNCHANGED <<gpio_vars, wcall, last_out>>

\* led_blink, line 504: the final gpio_output_ctl(pin_num, false)
BlinkFinalWrite(d, t) ==
    LET dev == led_dev_array[d]
        error == OutputCtlRet(dev.pin_num)
    IN
    /\ kthreads[d][t].pc = "final_write"
    /\ gplev' = OutputCtlLev(gplev, dev.pin_num, FALSE)
    /\ last_out' = IF error = ENONE THEN [last_out EXCEPT ![d] = "led_blink"] ELSE last_out
    /\ kthreads' = [kthreads EXCEPT ![d][t].pc =
          IF error = ENONE THEN "final_flag" ELSE "final_state"]
    /\ UNCHANGED <<gpfsel, gpio_func_mutex, gcall, led_dev_array, wcall>>

\* led_blink, line 508: is_led_on = false
BlinkFinalFlag(d, t) ==
    /\ kthreads[d][t].pc = "final_flag"
    /\ led_dev_array' = [led_dev_array EXCEPT ![d].is_led_on = FALSE]
    /\ kthreads' = [kthreads EXCEPT ![d][t].pc = "final_state"]
    /\ UNCHANGED <<gpio_vars, wcall, last_out>>

\* led_blink, lines 488 and 513: led_state = get_led_state_from_physical_state
BlinkSetState(d, t) ==
    /\ kthreads[d][t].pc \in {"final_state", "error_exit"}
    /\ led_dev_array' = [led_dev_array EXCEPT
          ![d].led_state = get_led_state_from_physical_state(led_dev_array[d])]
    /\ kthreads' = [kthreads EXCEPT ![d][t].pc = "clear_pointer"]
    /\ UNCHANGED <<gpio_vars, wcall, last_out>>

\* led_blink, lines 492 and 517: p_blink_thread = NULL, and return
BlinkClearPointer(d, t) ==
    /\ kthreads[d][t].pc = "clear_pointer"
    /\ led_dev_array' = [led_dev_array EXCEPT ![d].p_blink_thread = NULL_THREAD]
    /\ kthreads' = [kthreads EXCEPT ![d][t].pc = "exited"]
    /\ UNCHANGED <<gpio_vars, wcall, last_out>>

BlinkStep(d, t) ==
    \/ BlinkStart(d, t)
    \/ BlinkLoopTest(d, t)
    \/ BlinkToggleWrite(d, t)
    \/ BlinkToggleFlag(d, t)
    \/ BlinkFinalWrite(d, t)
    \/ BlinkFinalFlag(d, t)
    \/ BlinkSetState(d, t)
    \/ BlinkClearPointer(d, t)

(***************************************************************************)
(* Specifications                                                          *)
(***************************************************************************)
\* gpio_driver_init and pwm_driver_init have both returned ENONE
DriversLoaded ==
    /\ iomap = [k \in {"gpio", "pwm"} |-> "live"]
    /\ init_ret = [k \in {"gpio", "pwm"} |-> ENONE]
    /\ stray = {}

\* the GPIO driver loaded and nobody inside it
GpioIdle ==
    /\ gpfsel \in FselPatterns
    /\ gplev \in LevPatterns
    /\ gpio_func_mutex = "free"
    /\ gcall = [c \in GpioCallers |-> GpioIdleFrame]

\* the PWM driver loaded and nobody inside it
PwmIdle ==
    /\ pwm_perph \in PwmPatterns
    /\ pwm_mutex = "free"
    /\ pcall = [c \in PwmCallers |-> PwmIdleFrame]

PwmAtReset ==
    /\ pwm_perph = [ctl |-> {}, rng_1 |-> PWM_RESET_RANGE, dat_1 |-> 0,
                    rng_2 |-> PWM_RESET_RANGE, dat_2 |-> 0]
    /\ pwm_mutex = "free"
    /\ pcall = [c \in PwmCallers |-> PwmIdleFrame]

\* the LED driver not loaded: led_dev_array is zero-initialised static data
LedNotLoaded ==
    /\ led_dev_array = [d \in Devs |-> [LedDevInit(d) EXCEPT !.pin_num = 0]]
    /\ kthreads = [d \in Devs |-> [t \in Tids |-> UnusedThread]]
    /\ wcall = [w \in Writers |-> WriteIdleFrame]
    /\ last_out = [d \in Devs |-> "none"]
    /\ led_exit = ExitIdleFrame
    /\ led_init = InitIdleFrame

(* SpecGpio: one thread makes one call of a GPIO driver function, with any *)
(* arguments, on any of the prior register contents.                        *)
SpecGpioInit == GpioIdle /\ PwmAtReset /\ LedNotLoaded /\ DriversLoaded

SpecGpioNext ==
    \/ \E p \in PinInputs, f \in FuncInputs :
          GpioEnter("c1", "gpio_set_pin_function", p, f, FALSE)
          /\ UNCHANGED <<pwm_vars, led_vars, life_vars>>
    \/ \E p \in PinInputs, b \in BOOLEAN :
          GpioEnter("c1", "gpio_output_ctl", p, 0, b)
          /\ UNCHANGED <<pwm_vars, led_vars, life_vars>>
    \/ \E p \in PinInputs, b \in BOOLEAN :
          GpioEnter("c1", "gpio_set_pin_to_output", p, 0, b)
          /\ UNCHANGED <<pwm_vars, led_vars, life_vars>>
    \/ \E p \in PinInputs :
          GpioEnter("c1", "gpio_set_pin_to_pwm", p, 0, FALSE)
          /\ UNCHANGED <<pwm_vars, led_vars, life_vars>>
    \/ GpioStep("c1") /\ UNCHANGED <<pwm_vars, led_vars, life_vars>>

SpecGpio == SpecGpioInit /\ [][SpecGpioNext]_vars

(* SpecGpioConc: two threads each make one call of gpio_set_pin_function,   *)
(* on valid pins, and their steps interleave.  The pins are the first and   *)
(* the last pin of each function-select word and the two LED pins.          *)
ConcPins == {MIN_PIN_NUM, 9, 10, 19, 20, FIRST_LED_PIN, FIRST_LED_PIN + 1, MAX_PIN_NUM}
ConcFuncs == {GPIO_INPUT_FUNC, GPIO_OUTPUT_FUNC, GPIO_ALT_FUNC_0, GPIO_ALT_FUNC_3}

SpecGpioConcNext ==
    \/ \E c \in GpioCallers, p \in ConcPins, f \in ConcFuncs :
          GpioEnter(c, "gpio_set_pin_function", p, f, FALSE)
          /\ UNCHANGED <<pwm_vars, led_vars, life_vars>>
    \/ \E c \in GpioCallers : GpioStep(c) /\ UNCHANGED <<pwm_vars, led_vars, life_vars>>

SpecGpioConc == SpecGpioInit /\ [][SpecGpioConcNext]_vars

(* SpecGpioOut: two threads each make one call of gpio_output_ctl, on pins *)
(* of the board (the first, the last and the two LED pins) and on a pin    *)
(* outside it, and their steps interleave.                                  *)
OutPins == {MIN_PIN_NUM, FIRST_LED_PIN, FIRST_LED_PIN + 1, MAX_PIN_NUM, MAX_PIN_NUM + 1}

SpecGpioOutNext ==
    \/ \E c \in GpioCallers, p \in OutPins, b \in BOOLEAN :
          GpioEnter(c, "gpio_output_ctl", p, 0, b)
          /\ UNCHANGED <<pwm_vars, led_vars, life_vars>>
    \/ \E c \in GpioCallers : GpioEntry(c) /\ UNCHANGED <<pwm_vars, led_vars, life_vars>>

SpecGpioOut == SpecGpioInit /\ [][SpecGpioOutNext]_vars

(* SpecPwm: one thread has entered a PWM driver function, with any         *)
(* arguments and on any of the prior register contents, and runs it to its  *)
(* return.                                                                   *)
PwmCalls ==
    {PwmEntered("calc_pwm_data_val_from_percent", PWM_0, d, 0, FALSE, r) :
        d \in PercentInputs, r \in RangeInputs}
    \cup UNION {{PwmEntered("pwm_init_user_device", c, d, q, b, 0) :
        c \in ChannelInputs, d \in PercentInputs} : q \in FreqInputs, b \in BOOLEAN}
    \cup {PwmEntered("pwm_set_duty_cycle", c, d, 0, FALSE, 0) :
        c \in ChannelInputs, d \in PercentInputs}
    \cup {PwmEntered("pwm_enable", c, 0, 0, b, 0) : c \in ChannelInputs, b \in BOOLEAN}
    \cup {PwmEntered("pwm_reset_pwm_channels", PWM_0, 0, 0, FALSE, 0)}

SpecPwmInit ==
    /\ pwm_perph \in PwmPatterns
    /\ pwm_mutex = "free"
    /\ \E f \in PwmCalls : pcall = [c \in PwmCallers |-> IF c = "p1" THEN f ELSE PwmIdleFrame]
    /\ gpfsel = [r \in 0..GPFSEL_MAX_REG_OFFSET |-> {}]
    /\ gplev = {}
    /\ gpio_func_mutex = "free"
    /\ gcall = [c \in GpioCallers |-> GpioIdleFrame]
    /\ LedNotLoaded
    /\ DriversLoaded

SpecPwmNext == PwmStep("p1") /\ UNCHANGED <<gpio_vars, led_vars, life_vars>>

SpecPwm == SpecPwmInit /\ [][SpecPwmNext]_vars

(* SpecLed: the LED driver is loaded and one of its two device nodes is in  *)
(* use: one thread at a time writes commands to it while its blink threads *)
(* run.                                                                     *)
SpecLedInit == LedInit /\ PwmAtReset /\ DriversLoaded

OthersUnopened(d) == \A e \in Devs \ {d} : wcall[<<e, 1>>].pc = "idle"

SpecLedNext ==
    \/ \E d \in Devs, m \in MsgInputs :
          OthersUnopened(d) /\ LedWriteEnter(<<d, 1>>, m)
          /\ UNCHANGED <<pwm_vars, life_vars, led_exit, led_init>>
    \/ \E d \in Devs : LedWriteStep(<<d, 1>>) /\ UNCHANGED <<pwm_vars, life_vars, led_exit, led_init>>
    \/ \E d \in Devs, t \in Tids : BlinkStep(d, t) /\ UNCHANGED <<pwm_vars, life_vars, led_exit, led_init>>

SpecLed == SpecLedInit /\ [][SpecLedNext]_vars

(* SpecPwmConc: two threads have each entered pwm_init_user_device or       *)
(* pwm_enable, on either channel, and their steps interleave.               *)
ConcPwmCalls ==
    {PwmEntered("pwm_init_user_device", c, d, PWM_FREQ_4_kHZ, b, 0) :
        c \in {PWM_0, PWM_1}, d \in {25, 100}, b \in BOOLEAN}
    \cup {PwmEntered("pwm_enable", c, 0, 0, b, 0) : c \in {PWM_0, PWM_1}, b \in BOOLEAN}

SpecPwmConcInit ==
    /\ pwm_perph \in PwmPatterns
    /\ pwm_mutex = "free"
    /\ pcall \in [PwmCallers -> ConcPwmCalls]
    /\ gpfsel = [r \in 0..GPFSEL_MAX_REG_OFFSET |-> {}]
    /\ gplev = {}
    /\ gpio_func_mutex = "free"
    /\ gcall = [c \in GpioCallers |-> GpioIdleFrame]
    /\ LedNotLoaded
    /\ DriversLoaded

SpecPwmConcNext ==
    \E c \in PwmCallers : PwmStep(c) /\ UNCHANGED <<gpio_vars, led_vars, life_vars>>

SpecPwmConc == SpecPwmConcInit /\ [][SpecPwmConcNext]_vars

(***************************************************************************)
(* led_driver_exit                                                         *)
(***************************************************************************)
\* rmmod calls led_driver_exit; the module can be removed only while no
\* device node is open, so nobody is inside led_write and nobody enters it
\* afterwards.  Blink threads may be running.
LedExitEnter ==
    /\ led_exit.pc = "none"
    /\ \A w \in Writers : wcall[w].pc \in {"idle", "done"}
    /\ led_exit' = [led_exit EXCEPT !.pc = "check", !.led_num = 0]
    /\ UNCHANGED <<gpio_vars, led_dev_array, kthreads, wcall, last_out>>

\* led_driver_exit, lines 192-195: kthread_stop(p_blink_thread) when the
\* pointer is not NULL.  On a pointer that is no live thread the call is an
\* invalid access and never returns ("oops").
LedExitCheck ==
    LET d == led_exit.led_num
        t == led_dev_array[d].p_blink_thread
    IN
    /\ led_exit.pc = "check"
    /\ IF t # NULL_THREAD
       THEN IF t \in Tids /\ Live(d, t)
            THEN /\ kthreads' = [kthreads EXCEPT ![d][t].should_stop = TRUE]
                 /\ led_exit' = [led_exit EXCEPT !.pc = "kthread_stop", !.stopped[d] = t]
            ELSE /\ led_exit' = [led_exit EXCEPT !.pc = "oops"]
                 /\ UNCHANGED kthreads
       ELSE /\ led_exit' = [led_exit EXCEPT !.pc = "output"]
            /\ UNCHANGED kthreads
    /\ UNCHANGED <<gpio_vars, led_dev_array, wcall, last_out>>

\* led_driver_exit, line 194: kthread_stop returns
LedExitStopReturns ==
    LET d == led_exit.led_num IN
    /\ led_exit.pc = "kthread_stop"
    /\ KthreadStopReturns(kthreads[d][led_exit.stopped[d]])
    /\ led_exit' = [led_exit EXCEPT !.pc = "output"]
    /\ UNCHANGED <<gpio_vars, led_dev_array, kthreads, wcall, last_out>>

\* led_driver_exit, lines 197-211: gpio_output_ctl(pin_num, false), whose
\* error is only logged, and on to the next device
LedExitOutput ==
    LET d == led_exit.led_num
        dev == led_dev_array[d]
    IN
    /\ led_exit.pc = "output"
    /\ gplev' = OutputCtlLev(gplev, dev.pin_num, FALSE)
    /\ last_out' = IF OutputCtlRet(dev.pin_num) = ENONE
                   THEN [last_out EXCEPT ![d] = "led_driver_exit"] ELSE last_out
    /\ led_exit' = IF d + 1 < MAX_LED_DEVICES
                   THEN [led_exit EXCEPT !.pc = "check", !.led_num = d + 1]
                   ELSE [led_exit EXCEPT !.pc = "unloaded"]
    /\ UNCHANGED <<gpfsel, gpio_func_mutex, gcall, led_dev_array, kthreads, wcall>>

LedExitStep ==
    \/ LedExitCheck
    \/ LedExitStopReturns
    \/ LedExitOutput

(* SpecLedExit: as SpecLed, with the four commands as inputs, until the    *)
(* module is removed: led_driver_exit runs while the blink threads run.    *)
ExitMsgs == { <<"0">>, <<"1">>, <<"2">>, <<"3">> }

SpecLedExitNext ==
    \/ \E d \in Devs, m \in ExitMsgs :
          /\ led_exit.pc = "none"
          /\ OthersUnopened(d)
          /\ LedWriteEnter(<<d, 1>>, m)
          /\ UNCHANGED <<pwm_vars, life_vars, led_exit, led_init>>
    \/ \E d \in Devs : LedWriteStep(<<d, 1>>) /\ UNCHANGED <<pwm_vars, life_vars, led_exit, led_init>>
    \/ \E d \in Devs, t \in Tids : BlinkStep(d, t) /\ UNCHANGED <<pwm_vars, life_vars, led_exit, led_init>>
    \/ LedExitEnter /\ UNCHANGED <<pwm_vars, life_vars, led_init>>
    \/ LedExitStep /\ UNCHANGED <<pwm_vars, life_vars, led_init>>

SpecLedExit == SpecLedInit /\ [][SpecLedExitNext]_vars

(* SpecBlink: led_write and led_blink on a led_dev_t argument whose pin    *)
(* number and level flag are drawn from sets: a pin of the board, and a    *)
(* pin outside it, for which every gpio_output_ctl returns -EINVPIN.  The  *)
(* devices led_dev_init sets up have pins 22 and 23, on which               *)
(* gpio_output_ctl cannot fail; the branches taken after a failed write    *)
(* run only here.                                                          *)
BlinkPins == {FIRST_LED_PIN, MAX_PIN_NUM + 1}
BlinkMsgs == { <<"0">>, <<"1">>, <<"2">>, <<"3">> }

SpecBlinkInit ==
    /\ \E pin \in BlinkPins, on \in BOOLEAN :
          /\ led_dev_array = [d \in Devs |->
                IF d = 0
                THEN [LedDevInit(d) EXCEPT !.pin_num = pin, !.is_led_on = on,
                                           !.led_state = IF on THEN LED_ON ELSE LED_OFF]
                ELSE LedDevInit(d)]
          /\ gplev = IF on /\ gpio_is_valid_pin(pin) THEN {pin} ELSE {}
    /\ gpfsel = FselAfterInit([r \in 0..GPFSEL_MAX_REG_OFFSET |-> {}], MAX_LED_DEVICES)
    /\ gpio_func_mutex = "free"
    /\ gcall = [c \in GpioCallers |-> GpioIdleFrame]
    /\ kthreads = [d \in Devs |-> [t \in Tids |-> UnusedThread]]
    /\ wcall = [w \in Writers |-> WriteIdleFrame]
    /\ last_out = [d \in Devs |-> "init"]
    /\ led_exit = ExitIdleFrame
    /\ led_init = InitDoneFrame
    /\ PwmAtReset
    /\ DriversLoaded

SpecBlinkNext ==
    \/ \E m \in BlinkMsgs :
          LedWriteEnter(<<0, 1>>, m) /\ UNCHANGED <<pwm_vars, life_vars, led_exit, led_init>>
    \/ LedWriteStep(<<0, 1>>) /\ UNCHANGED <<pwm_vars, life_vars, led_exit, led_init>>
    \/ \E t \in Tids : BlinkStep(0, t) /\ UNCHANGED <<pwm_vars, life_vars, led_exit, led_init>>

SpecBlink == SpecBlinkInit /\ [][SpecBlinkNext]_vars

(* SpecLedPair: both device nodes are in use at once: a thread writes     *)
(* toggle and blink commands to device 0 and another blink commands to     *)
(* device 1, while the blink threads of both devices run.                  *)
PairMsgs(d) == IF d = 0 THEN { <<"2">>, <<"3">> } ELSE { <<"3">> }

SpecLedPairInit ==
    /\ LedInit
    /\ gplev = {}
    /\ gpfsel = FselAfterInit([r \in 0..GPFSEL_MAX_REG_OFFSET |-> {}], MAX_LED_DEVICES)
    /\ PwmAtReset
    /\ DriversLoaded

SpecLedPairNext ==
    \/ \E d \in Devs : \E m \in PairMsgs(d) :
          LedWriteEnter(<<d, 1>>, m) /\ UNCHANGED <<pwm_vars, life_vars, led_exit, led_init>>
    \/ \E d \in Devs : LedWriteStep(<<d, 1>>) /\ UNCHANGED <<pwm_vars, life_vars, led_exit, led_init>>
    \/ \E d \in Devs, t \in Tids : BlinkStep(d, t) /\ UNCHANGED <<pwm_vars, life_vars, led_exit, led_init>>

SpecLedPair == SpecLedPairInit /\ [][SpecLedPairNext]_vars

(* SpecLedRead: as SpecLed with the on and blink commands as inputs, and a *)
(* second thread that reads from the device nodes at any time.             *)
ReadMsgs == { <<"1">>, <<"3">> }
ReadBuffers == { <<>>, <<"x", "x">> }

SpecLedReadNext ==
    \/ \E d \in Devs, m \in ReadMsgs :
          OthersUnopened(d) /\ LedWriteEnter(<<d, 1>>, m)
          /\ UNCHANGED <<pwm_vars, life_vars, led_exit, led_init>>
    \/ \E d \in Devs : LedWriteStep(<<d, 1>>) /\ UNCHANGED <<pwm_vars, life_vars, led_exit, led_init>>
    \/ \E d \in Devs, t \in Tids : BlinkStep(d, t) /\ UNCHANGED <<pwm_vars, life_vars, led_exit, led_init>>
    \/ \E d \in Devs, b \in ReadBuffers :
          LedRead(<<d, 2>>, b) /\ UNCHANGED <<pwm_vars, life_vars, led_exit, led_init>>

SpecLedRead == SpecLedInit /\ [][SpecLedReadNext]_vars

(* SpecLedExitFair: SpecLedExit under fair scheduling: a blink thread, a   *)
(* write call and led_driver_exit each take their next step when it stays  *)
(* possible.  A process need not ever issue a command, and the module need *)
(* not ever be removed.                                                    *)
LedExitFairness ==
    /\ \A d \in Devs : \A t \in Tids :
          WF_vars(BlinkStep(d, t) /\ UNCHANGED <<pwm_vars, life_vars, led_exit, led_init>>)
    /\ \A d \in Devs :
          WF_vars(LedWriteStep(<<d, 1>>) /\ UNCHANGED <<pwm_vars, life_vars, led_exit, led_init>>)
    /\ WF_vars(LedExitStep /\ UNCHANGED <<pwm_vars, life_vars, led_init>>)

SpecLedExitFair == SpecLedExit /\ LedExitFairness

(* SpecLedConc: two processes have opened the node of device 0 (led_open   *)
(* gives each the same led_dev_t) and write to it at the same time: the    *)
(* first writes blink commands, the second any of the four commands.       *)
ConcMsgs(n) == IF n = 1 THEN { <<"3">> } ELSE { <<"0">>, <<"1">>, <<"2">>, <<"3">> }

SpecLedConcNext ==
    \/ \E n \in {1, 2} : \E m \in ConcMsgs(n) :
          LedWriteEnter(<<0, n>>, m) /\ UNCHANGED <<pwm_vars, life_vars, led_exit, led_init>>
    \/ \E n \in {1, 2} :
          LedWriteStep(<<0, n>>) /\ UNCHANGED <<pwm_vars, life_vars, led_exit, led_init>>
    \/ \E t \in Tids : BlinkStep(0, t) /\ UNCHANGED <<pwm_vars, life_vars, led_exit, led_init>>

SpecLedConc == SpecLedPairInit /\ [][SpecLedConcNext]_vars

(* SpecMutexFair: two threads call into the GPIO driver and two into the   *)
(* PWM driver at the same time, on valid and invalid arguments, under fair *)
(* scheduling: a thread inside a driver function takes its next step when  *)
(* it stays possible.  mutex_lock is possible when the mutex is free.      *)
MutexPins == {FIRST_LED_PIN, MAX_PIN_NUM + 1}

MutexPwmCalls(c) ==
    IF c = "p1"
    THEN {PwmEntered("pwm_init_user_device", ch, 25, PWM_FREQ_4_kHZ, TRUE, 0) :
              ch \in {PWM_0, 3}}
         \cup {PwmEntered("pwm_set_duty_cycle", ch, 25, 0, FALSE, 0) : ch \in {PWM_0, 3}}
    ELSE {PwmEntered("pwm_set_duty_cycle", 3, 25, 0, FALSE, 0),
          PwmEntered("pwm_enable", PWM_0, 0, 0, TRUE, 0),
          PwmEntered("pwm_reset_pwm_channels", PWM_0, 0, 0, FALSE, 0)}

SpecMutexFairInit ==
    /\ GpioIdle
    /\ gpfsel = [r \in 0..GPFSEL_MAX_REG_OFFSET |-> {}]
    /\ gplev = {}
    /\ pwm_perph = [ctl |-> {}, rng_1 |-> PWM_RESET_RANGE, dat_1 |-> 0,
                    rng_2 |-> PWM_RESET_RANGE, dat_2 |-> 0]
    /\ pwm_mutex = "free"
    /\ pcall \in [PwmCallers -> UNION {MutexPwmCalls(c) : c \in PwmCallers}]
    /\ \A c \in PwmCallers : pcall[c] \in MutexPwmCalls(c)
    /\ LedNotLoaded
    /\ DriversLoaded

SpecMutexFairNext ==
    \/ \E c \in GpioCallers, p \in MutexPins :
          GpioEnter(c, "gpio_set_pin_function", p, GPIO_OUTPUT_FUNC, FALSE)
          /\ UNCHANGED <<pwm_vars, led_vars, life_vars>>
    \/ \E p \in MutexPins :
          GpioEnter("c1", "gpio_set_pin_to_output", p, 0, FALSE)
          /\ UNCHANGED <<pwm_vars, led_vars, life_vars>>
    \/ \E c \in GpioCallers : GpioStep(c) /\ UNCHANGED <<pwm_vars, led_vars, life_vars>>
    \/ \E c \in PwmCallers : PwmStep(c) /\ UNCHANGED <<gpio_vars, led_vars, life_vars>>

MutexFairness ==
    /\ \A c \in GpioCallers :
          WF_vars(GpioStep(c) /\ UNCHANGED <<pwm_vars, led_vars, life_vars>>)
    /\ \A c \in PwmCallers :
          WF_vars(PwmStep(c) /\ UNCHANGED <<gpio_vars, led_vars, life_vars>>)

SpecMutexFair == SpecMutexFairInit /\ [][SpecMutexFairNext]_vars /\ MutexFairness

(***************************************************************************)
(* led_driver_init and led_dev_init                                        *)
(***************************************************************************)
\* gpio_set_pin_to_output(pin_num, false) as led_dev_init calls it: its
\* return value, and the registers it leaves
SetPinToOutputRet(pin_num) ==
    IF ~gpio_is_valid_pin(pin_num) THEN -EINVPIN
    ELSE IF OutputCtlRet(pin_num) # ENONE THEN OutputCtlRet(pin_num)
    ELSE FselCheck(pin_num, GPIO_OUTPUT_FUNC)

FselAfterOutput(fsel, pin_num) ==
    IF SetPinToOutputRet(pin_num) # ENONE THEN fsel
    ELSE [fsel EXCEPT ![FselRegisterOffset(pin_num)] =
            FselValue(fsel[FselRegisterOffset(pin_num)], pin_num, GPIO_OUTPUT_FUNC)]

\* led_driver_init, lines 106-137: alloc_chrdev_region and class_create, each
\* of which may fail, and the start of the loop over the devices.  The first
\* LED pin is FIRST_LED_PIN in the driver; here it is an input, so that the
\* failure of gpio_set_pin_to_output is exercised as well.
LedInitEnter(first_pin) ==
    /\ led_init.pc = "none"
    /\ \E ok \in BOOLEAN :
          led_init' = IF ok
                      THEN [led_init EXCEPT !.pc = "dev_init", !.first_pin = first_pin]
                      ELSE [led_init EXCEPT !.pc = "failed", !.first_pin = first_pin,
                                            !.error = -ENOMEM]
    /\ UNCHANGED <<gpio_vars, led_dev_array, kthreads, wcall, last_out>>

\* led_dev_init, lines 258-272: p_device = NULL, pin_num, and
\* gpio_set_pin_to_output(pin_num, false); on success led_state and is_led_on
LedDevInitPin ==
    LET d == led_init.led_num
        pin == led_init.first_pin + d
        error == SetPinToOutputRet(pin)
    IN
    /\ led_init.pc = "dev_init"
    /\ gplev' = OutputCtlLev(gplev, pin, FALSE)
    /\ gpfsel' = FselAfterOutput(gpfsel, pin)
    /\ led_dev_array' = [led_dev_array EXCEPT ![d] =
          IF error # ENONE THEN [@ EXCEPT !.pin_num = pin]
          ELSE [@ EXCEPT !.pin_num = pin, !.led_state = LedDevInit(d).led_state,
                         !.is_led_on = LedDevInit(d).is_led_on]]
    /\ last_out' = IF error = ENONE THEN [last_out EXCEPT ![d] = "init"] ELSE last_out
    /\ led_init' = IF error # ENONE
                   THEN [led_init EXCEPT !.error = error, !.pc = "cleanup"]
                   ELSE [led_init EXCEPT !.pc = "cdev_add"]
    /\ UNCHANGED <<gpio_func_mutex, gcall, kthreads, wcall>>

\* led_dev_init, lines 278-289: cdev_init and cdev_add, which may fail
LedDevInitCdev ==
    LET d == led_init.led_num IN
    /\ led_init.pc = "cdev_add"
    /\ \E ok \in BOOLEAN :
          led_init' = IF ok
                      THEN [led_init EXCEPT !.cdev[d] = TRUE, !.pc = "device_create"]
                      ELSE [led_init EXCEPT !.error = -ENOMEM, !.pc = "cleanup"]
    /\ UNCHANGED <<gpio_vars, led_dev_array, kthreads, wcall, last_out>>

\* led_dev_init, lines 297-310: device_create, which may return an ERR_PTR
\* value; the test IS_ERR(led_dev) is made on the led_dev_t pointer, which
\* is never an error value, so led_dev_init returns ENONE either way; then
\* led_driver_init, lines 143-156: count the device and go on to the next
LedDevInitDevice ==
    LET d == led_init.led_num IN
    /\ led_init.pc = "device_create"
    /\ \E ok \in BOOLEAN :
          led_init' = [led_init EXCEPT
              !.p_device[d] = IF ok THEN "device" ELSE "ERR_PTR",
              !.devices_successfully_inited = @ + 1,
              !.led_num = d + 1,
              !.pc = IF d + 1 < MAX_LED_DEVICES THEN "dev_init" ELSE "done"]
    /\ UNCHANGED <<gpio_vars, led_dev_array, kthreads, wcall, last_out>>

\* led_driver_init, lines 158-181: device_destroy and cdev_del for the
\* devices counted in devices_successfully_inited, class_destroy,
\* unregister, and return error
LedInitCleanup ==
    LET inited == {d \in Devs : d < led_init.devices_successfully_inited} IN
    /\ led_init.pc = "cleanup"
    /\ led_init' = [led_init EXCEPT
          !.cdev = [d \in Devs |-> IF d \in inited THEN FALSE ELSE @[d]],
          !.p_device = [d \in Devs |-> IF d \in inited THEN "NULL" ELSE @[d]],
          !.pc = "failed"]
    /\ UNCHANGED <<gpio_vars, led_dev_array, kthreads, wcall, last_out>>

LedInitStep ==
    \/ LedDevInitPin
    \/ LedDevInitCdev
    \/ LedDevInitDevice
    \/ LedInitCleanup

(* SpecLedLoad: the GPIO driver is loaded and the LED module is inserted:  *)
(* led_driver_init runs once, on any of the prior register contents.       *)
FirstPinInputs == {FIRST_LED_PIN, MAX_PIN_NUM, MAX_PIN_NUM + 1}

SpecLedLoadNext ==
    \/ \E first_pin \in FirstPinInputs :
          LedInitEnter(first_pin) /\ UNCHANGED <<pwm_vars, life_vars, led_exit>>
    \/ LedInitStep /\ UNCHANGED <<pwm_vars, life_vars, led_exit>>

SpecLedLoad == SpecGpioInit /\ [][SpecLedLoadNext]_vars

(***************************************************************************)
(* Life cycle of the GPIO and PWM drivers: init, calls, exit               *)
(***************************************************************************)
Drivers == {"gpio", "pwm"}

\* nobody is inside the driver
GpioQuiet == \A c \in GpioCallers : gcall[c].pc = "idle"
PwmQuiet == \A c \in PwmCallers : pcall[c].pc = "idle"

\* the next step of the call dereferences the mapped register block
GpioTouchesRegisters(c) ==
    \/ /\ gcall[c].pc = "entry"
       /\ gcall[c].op \in {"gpio_output_ctl", "gpio_set_pin_to_output"}
       /\ gpio_is_valid_pin(gcall[c].pin_num)
    \/ gcall[c].pc \in {"fsel_read", "fsel_write"}

PwmTouchesRegisters(c) ==
    \/ pcall[c].pc = "init_clear" /\ validate_pwm_channel(pcall[c].pwm_channel)
    \/ pcall[c].pc \in {"init_clear_write", "init_dat", "init_rng", "init_enable_write",
                        "enable_body", "enable_write"}
    \/ pcall[c].pc = "init_enable" /\ pcall[c].flag
    \/ pcall[c].pc = "duty_body" /\ GetChannelRangeRet(pcall[c].pwm_channel) = ENONE

\* gpio_driver_init: ioremap returns a mapping (mapped) or NULL
gpio_driver_init(mapped) ==
    /\ iomap["gpio"] # "live"
    /\ GpioQuiet
    /\ iomap' = [iomap EXCEPT !["gpio"] = IF mapped THEN "live" ELSE "failed"]
    /\ init_ret' = [init_ret EXCEPT !["gpio"] = IF mapped THEN ENONE ELSE -EMAPPING]
    /\ gpio_func_mutex' = "free"
    /\ UNCHANGED <<gpfsel, gplev, gcall, stray>>

\* gpio_driver_exit: iounmap and mutex_destroy; the module can be removed
\* only while nobody is inside it
gpio_driver_exit ==
    /\ iomap["gpio"] = "live"
    /\ GpioQuiet
    /\ iomap' = [iomap EXCEPT !["gpio"] = "released"]
    /\ UNCHANGED <<gpio_vars, init_ret, stray>>

\* pwm_driver_init
pwm_driver_init(mapped) ==
    /\ iomap["pwm"] # "live"
    /\ PwmQuiet
    /\ iomap' = [iomap EXCEPT !["pwm"] = IF mapped THEN "live" ELSE "failed"]
    /\ init_ret' = [init_ret EXCEPT !["pwm"] = IF mapped THEN ENONE ELSE -EMAPPING]
    /\ pwm_mutex' = "free"
    /\ UNCHANGED <<pwm_perph, pcall, stray>>

\* pwm_driver_exit, lines 137-144: iounmap(pwm_perph), then the call of
\* pwm_reset_pwm_channels, which the exiting thread ("p2") goes on to run
PwmExitUnmap ==
    /\ iomap["pwm"] = "live"
    /\ PwmQuiet
    /\ iomap' = [iomap EXCEPT !["pwm"] = "released"]
    /\ pcall' = [pcall EXCEPT !["p2"] =
          PwmEntered("pwm_reset_pwm_channels", PWM_0, 0, 0, FALSE, 0)]
    /\ UNCHANGED <<pwm_perph, pwm_mutex, init_ret, stray>>

\* pwm_driver_exit, lines 146-149: pwm_reset_pwm_channels has returned;
\* mutex_destroy and return
PwmExitReturn ==
    /\ iomap["pwm"] = "released"
    /\ pcall["p2"].op = "pwm_reset_pwm_channels"
    /\ pcall["p2"].pc = "done"
    /\ pcall' = [pcall EXCEPT !["p2"] = PwmIdleFrame]
    /\ UNCHANGED <<pwm_perph, pwm_mutex, life_vars>>

\* a step of a call, which is recorded when it dereferences a register
\* block whose mapping is not live
GpioTracked(c) ==
    /\ GpioStep(c)
    /\ stray' = IF GpioTouchesRegisters(c) /\ iomap["gpio"] # "live"
                THEN stray \cup {"gpio"} ELSE stray
    /\ UNCHANGED <<iomap, init_ret>>

PwmTracked(c) ==
    /\ PwmStep(c)
    /\ stray' = IF PwmTouchesRegisters(c) /\ iomap["pwm"] # "live"
                THEN stray \cup {"pwm"} ELSE stray
    /\ UNCHANGED <<iomap, init_ret>>

\* a dereference of a released mapping is undefined: the access may go
\* through (PwmTracked) or fault, and then the thread never returns
PwmFault(c) ==
    /\ PwmTouchesRegisters(c)
    /\ iomap["pwm"] # "live"
    /\ pcall' = [pcall EXCEPT ![c].pc = "oops"]
    /\ stray' = stray \cup {"pwm"}
    /\ UNCHANGED <<pwm_perph, pwm_mutex, iomap, init_ret>>

\* a call has returned to its caller
PwmReturn(c) ==
    /\ pcall[c].pc = "done"
    /\ pcall[c].op # "pwm_reset_pwm_channels"
    /\ pcall' = [pcall EXCEPT ![c] = PwmIdleFrame]
    /\ UNCHANGED <<pwm_perph, pwm_mutex>>

(* SpecLife: the GPIO and PWM modules are loaded (the mapping may fail),    *)
(* called by one thread each while loaded, and removed, any number of       *)
(* times.                                                                   *)
LifePins == {FIRST_LED_PIN, MAX_PIN_NUM + 1}
LifeChannels == {PWM_0, PWM_1, NOT_PWM}

SpecLifeInit ==
    /\ gpfsel = [r \in 0..GPFSEL_MAX_REG_OFFSET |-> {}]
    /\ gplev = {}
    /\ gpio_func_mutex = "free"
    /\ gcall = [c \in GpioCallers |-> GpioIdleFrame]
    /\ PwmAtReset
    /\ LedNotLoaded
    /\ iomap = [k \in Drivers |-> "none"]
    /\ init_ret = [k \in Drivers |-> ENONE]
    /\ stray = {}

SpecLifeNext ==
    \/ \E mapped \in BOOLEAN : gpio_driver_init(mapped) /\ UNCHANGED <<pwm_vars, led_vars>>
    \/ \E p \in LifePins, b \in BOOLEAN :
          /\ iomap["gpio"] = "live"
          /\ GpioEnter("c1", "gpio_set_pin_to_output", p, 0, b)
          /\ UNCHANGED <<pwm_vars, led_vars, life_vars>>
    \/ GpioTracked("c1") /\ UNCHANGED <<pwm_vars, led_vars>>
    \/ GpioReturn("c1") /\ UNCHANGED <<pwm_vars, led_vars, life_vars>>
    \/ gpio_driver_exit /\ UNCHANGED <<pwm_vars, led_vars>>
    \/ \E mapped \in BOOLEAN : pwm_driver_init(mapped) /\ UNCHANGED <<gpio_vars, led_vars>>
    \/ \E ch \in LifeChannels, b \in BOOLEAN :
          /\ iomap["pwm"] = "live"
          /\ PwmEnter("p1", "pwm_init_user_device", ch, 25, PWM_FREQ_4_kHZ, b, 0)
          /\ UNCHANGED <<gpio_vars, led_vars, life_vars>>
    \/ \E ch \in LifeChannels, b \in BOOLEAN :
          /\ iomap["pwm"] = "live"
          /\ PwmEnter("p1", "pwm_enable", ch, 0, 0, b, 0)
          /\ UNCHANGED <<gpio_vars, led_vars, life_vars>>
    \/ \E c \in PwmCallers : PwmTracked(c) /\ UNCHANGED <<gpio_vars, led_vars>>
    \/ \E c \in PwmCallers : PwmFault(c) /\ UNCHANGED <<gpio_vars, led_vars>>
    \/ PwmReturn("p1") /\ UNCHANGED <<gpio_vars, led_vars, life_vars>>
    \/ PwmExitUnmap /\ UNCHANGED <<gpio_vars, led_vars>>
    \/ PwmExitReturn /\ UNCHANGED <<gpio_vars, led_vars>>

SpecLife == SpecLifeInit /\ [][SpecLifeNext]_vars

(***************************************************************************)
(* Properties                                                              *)
(***************************************************************************)

\* ---- LED driver, under SpecLed ----

\* the frame of the thread writing to device d
Writer(d) == wcall[<<d, 1>>]

\* the pin of device d is driven high
PinHigh(d) == led_dev_array[d].pin_num \in gplev

\* led_write has returned len for command cmd on device d
Returned(d, cmd) ==
    /\ Writer(d).pc = "done"
    /\ Writer(d).cmd = cmd
    /\ Writer(d).ret = Writer(d).len

\* C1: when an "off" command returns success -- whatever preceded it, a
\* successful "blink" in particular, and wherever the blink thread was in its
\* toggle cycle -- the device has led_state = LED_OFF and is_led_on = FALSE,
\* no blink thread of the device is live, the pin is low, and the last
\* output write on the pin is the command's own: no write by the blink
\* thread follows it for as long as the command stays the last one issued.
C1_OffAfterBlink ==
    \A d \in Devs :
        Returned(d, CMD_OFF) =>
            /\ led_dev_array[d].led_state = LED_OFF
            /\ led_dev_array[d].is_led_on = FALSE
            /\ LiveThreads(d) = {}
            /\ ~PinHigh(d)
            /\ last_out[d] = "led_write"

\* an "off" that found a blink thread running, stopped it and returned
C1_Witness ==
    \E d \in Devs :
        /\ Returned(d, CMD_OFF)
        /\ Writer(d).stopped # NULL_THREAD
        /\ kthreads[d][Writer(d).stopped].pc = "exited"
        /\ led_dev_array[d].p_blink_thread = NULL_THREAD

\* C2: with the write commands of a device issued one after another, at most
\* one blink thread of the device is live in any reachable state.
C2_AtMostOneBlinkTask ==
    \A d \in Devs : Cardinality(LiveThreads(d)) <= 1

\* "blink" after "blink": the second thread runs and the first has exited
C2_Witness ==
    \E d \in Devs :
        /\ kthreads[d][1].pc = "exited"
        /\ kthreads[d][2].pc = "toggle_flag"
        /\ led_dev_array[d].p_blink_thread = 2

\* no led_write is in progress on device d
Quiescent(d) == \A w \in Writers : WriterDev(w) = d => wcall[w].pc \in {"idle", "done"}

\* C3 (as claimed): led_state = LED_BLINK exactly when p_blink_thread is the
\* handle of a live blink thread, and p_blink_thread is NULL otherwise.  It
\* is stated here for the states in which no command is in progress on the
\* device, the reading most favourable to the code.
C3_BlinkIffLiveHandle ==
    \A d \in Devs :
        Quiescent(d) =>
            LET p == led_dev_array[d].p_blink_thread IN
            /\ (led_dev_array[d].led_state = LED_BLINK) <=> (p \in Tids /\ Live(d, p))
            /\ (led_dev_array[d].led_state # LED_BLINK) => (p = NULL_THREAD)

\* nobody is between an output write on the pin of device d and the store
\* to is_led_on that follows it
Settled(d) ==
    /\ \A w \in Writers : WriterDev(w) = d => wcall[w].pc # "update"
    /\ \A t \in Tids : kthreads[d][t].pc \notin {"toggle_flag", "final_flag"}

\* C4: once led_driver_init has run, and between the steps of led_write and
\* of led_blink (each output write taken together with the store that
\* follows it), is_led_on is the level of the last successful output write
\* on the device's pin.
C4_FlagIsLastWrittenLevel ==
    \A d \in Devs : Settled(d) => (led_dev_array[d].is_led_on = PinHigh(d))

\* the blink thread has switched the LED on, and a toggle command has too
C4_Witness ==
    \E d \in Devs :
        /\ Settled(d)
        /\ last_out[d] = "led_blink"
        /\ led_dev_array[d].is_led_on
        /\ PinHigh(d)
        /\ Writer(d).cmd = CMD_TOGGLE

\* ---- GPIO driver, under SpecGpio and SpecGpioConc ----

\* the bits of the function-select field of a pin within its word
FselFieldBits(pin_num) == FselShift(pin_num)..(FselShift(pin_num) + GPFSEL_FIELD_BIT_WIDTH - 1)

\* call c is gpio_set_pin_function on a valid pin with a valid function
ValidSetFunction(c) ==
    /\ gcall[c].op = "gpio_set_pin_function"
    /\ gcall[c].pin_num \in MIN_PIN_NUM..MAX_PIN_NUM
    /\ gcall[c].gpio_func_type \in 0..7

\* C5: gpio_set_pin_function(p, f) on a valid pin and function returns
\* ENONE; its one write to the function-select words leaves the field of p
\* equal to f and every other bit of the word and every other word as they
\* were; no other step of the call changes the function-select words.
C5_SetPinFunctionFrame ==
    [][\A c \in GpioCallers :
          ValidSetFunction(c) =>
              LET f == gcall[c]
                  r == FselRegisterOffset(f.pin_num)
              IN
              /\ (f.pc = "fsel_write" /\ gcall'[c].pc # "fsel_write") =>
                    /\ FselField(gpfsel', f.pin_num) = f.gpio_func_type
                    /\ gpfsel'[r] \ FselFieldBits(f.pin_num)
                          = gpfsel[r] \ FselFieldBits(f.pin_num)
                    /\ \A q \in DOMAIN gpfsel : q # r => gpfsel'[q] = gpfsel[q]
              /\ (f.pc # "fsel_write") => gpfsel' = gpfsel
              /\ (gcall'[c].pc = "done") =>
                    /\ gcall'[c].ret = ENONE
                    /\ FselField(gpfsel', f.pin_num) = f.gpio_func_type
                    /\ Len(gcall'[c].writes) = 1
      ]_vars

\* pin 23 set to alternate function 0 in a word whose other fields were all
\* ones and still are
C5_Witness ==
    /\ ValidSetFunction("c1")
    /\ gcall["c1"].pc = "done"
    /\ gcall["c1"].pin_num = 23
    /\ gcall["c1"].gpio_func_type = GPIO_ALT_FUNC_0
    /\ FselField(gpfsel, 23) = GPIO_ALT_FUNC_0
    /\ FselField(gpfsel, 22) = 7
    /\ FselField(gpfsel, 24) = 7
    /\ {30, 31} \subseteq gpfsel[2]

\* C6: concurrent gpio_set_pin_function calls: at most one call is between
\* taking and releasing the mutex (so between its read and its write of the
\* word) at any time, and once the calls on distinct pins have returned each
\* pin's field holds the function its call asked for.
C6_SetPinFunctionAtomic ==
    /\ Cardinality({c \in GpioCallers :
                      gcall[c].pc \in {"fsel_read", "fsel_write", "fsel_unlock"}}) <= 1
    /\ \A c \in GpioCallers : gcall[c].pc \in {"fsel_read", "fsel_write", "fsel_unlock"}
                                 => gpio_func_mutex = c
    /\ (/\ \A c \in GpioCallers : gcall[c].pc = "done"
        /\ \A c1, c2 \in GpioCallers : c1 # c2 => gcall[c1].pin_num # gcall[c2].pin_num)
       => \A c \in GpioCallers :
             /\ gcall[c].ret = ENONE
             /\ FselField(gpfsel, gcall[c].pin_num) = gcall[c].gpio_func_type

\* two calls on the LED pins, which share GPFSEL2, have both returned and
\* changed their fields
C6_Witness ==
    /\ \A c \in GpioCallers : gcall[c].pc = "done"
    /\ gcall["c1"].pin_num = 22 /\ gcall["c1"].gpio_func_type = GPIO_OUTPUT_FUNC
    /\ gcall["c2"].pin_num = 23 /\ gcall["c2"].gpio_func_type = GPIO_ALT_FUNC_0
    /\ FselField(gpfsel, 22) = GPIO_OUTPUT_FUNC
    /\ FselField(gpfsel, 23) = GPIO_ALT_FUNC_0
    /\ FselField(gpfsel, 24) = 7

\* C7: for a pin number outside [2, 27], each of gpio_output_ctl,
\* gpio_set_pin_to_output, gpio_set_pin_function and gpio_set_pin_to_pwm makes
\* no register write at any step -- the set/clear levels and the
\* function-select words are those it found -- and returns -EINVPIN.
C7_InvalidPinRejected ==
    \A c \in GpioCallers :
        (gcall[c].op # "none" /\ ~(gcall[c].pin_num \in 2..27)) =>
            /\ gcall[c].writes = <<>>
            /\ gpfsel \in FselPatterns
            /\ gplev \in LevPatterns
            /\ gcall[c].pc \notin {"fsel_lock", "fsel_read", "fsel_write", "fsel_unlock"}
            /\ gcall[c].pc = "done" => gcall[c].ret = -EINVPIN

\* gpio_set_pin_to_output(28, true) has returned
C7_Witness ==
    /\ gcall["c1"].op = "gpio_set_pin_to_output"
    /\ gcall["c1"].pin_num = 28
    /\ gcall["c1"].flag
    /\ gcall["c1"].pc = "done"
    /\ gcall["c1"].ret = -EINVPIN

\* ---- PWM driver, under SpecPwm ----

\* the duty data the specification gives for a percentage and a range
ClaimedDutyData(percent, range) ==
    IF percent <= 0 THEN 0
    ELSE IF percent >= 100 THEN range
    ELSE (range \div 100) * percent

\* C8 (as claimed): calc_pwm_data_val_from_percent(percent, range) is 0 for
\* percent <= 0, range for percent >= 100 and floor(range/100)*percent
\* otherwise.
C8_CalcDutyData ==
    \A c \in PwmCallers :
        (pcall[c].op = "calc_pwm_data_val_from_percent" /\ pcall[c].pc = "done") =>
            pcall[c].data_val = ClaimedDutyData(pcall[c].duty_cycle, pcall[c].range_val)

\* the registers of a channel
ChannelRange(perph, ch) == IF ch = PWM_0 THEN perph.rng_1 ELSE perph.rng_2
ChannelData(perph, ch) == IF ch = PWM_0 THEN perph.dat_1 ELSE perph.dat_2
ChannelEnabled(perph, ch) == (IF ch = PWM_0 THEN PWEN_1_BIT ELSE PWEN_2_BIT) \in perph.ctl

\* C9 (as claimed): after pwm_init_user_device(channel, duty, 4 kHz, enabled)
\* has returned success, the channel's range register reads 19200000/4000,
\* its data register reads the duty data of the request and its enable bit
\* is the requested flag.
C9_InitUserDeviceRoundTrip ==
    \A c \in PwmCallers :
        LET f == pcall[c] IN
        (/\ f.op = "pwm_init_user_device" /\ f.pc = "done" /\ f.ret = ENONE
         /\ f.duty_cycle \in 0..100) =>
            /\ ChannelRange(pwm_perph, f.pwm_channel) = PWM_CLK_RATE \div f.cycle_freq
            /\ ChannelData(pwm_perph, f.pwm_channel)
                  = ClaimedDutyData(f.duty_cycle, PWM_CLK_RATE \div f.cycle_freq)
            /\ ChannelEnabled(pwm_perph, f.pwm_channel) = f.flag

\* C10 (as claimed): pwm_set_duty_cycle on PWM_0 or PWM_1 returns success and
\* sets the channel's data register to the duty data computed from the
\* channel's range register, the other registers being left as they were;
\* on any other channel value it returns an error and writes no register.
C10_SetDutyCycle ==
    \A c \in PwmCallers :
        LET f == pcall[c] IN
        (f.op = "pwm_set_duty_cycle" /\ f.pc = "done") =>
            IF f.pwm_channel \in {PWM_0, PWM_1}
            THEN /\ f.ret = ENONE
                 /\ ChannelData(pwm_perph, f.pwm_channel)
                       = ClaimedDutyData(f.duty_cycle, ChannelRange(pwm_perph, f.pwm_channel))
                 /\ \E prior \in PwmPatterns :
                       /\ pwm_perph.ctl = prior.ctl
                       /\ pwm_perph.rng_1 = prior.rng_1
                       /\ pwm_perph.rng_2 = prior.rng_2
                       /\ ChannelData(pwm_perph, 1 - f.pwm_channel)
                             = ChannelData(prior, 1 - f.pwm_channel)
            ELSE /\ f.ret < 0
                 /\ f.writes = <<>>
                 /\ pwm_perph \in PwmPatterns

\* ---- Life cycle of the GPIO and PWM drivers, under SpecLife ----

\* C11 (as claimed): through init, calls and teardown of the GPIO and PWM
\* drivers (the PWM reset made at teardown included) no register is accessed
\* while the driver's mapping is not live, and an init whose mapping failed
\* has returned an error.
C11_AccessOnlyWhileMapped ==
    /\ stray = {}
    /\ \A k \in Drivers : iomap[k] = "failed" => init_ret[k] < 0

\* ---- PWM driver: frame of the channel operations, under SpecPwm ----

\* the 8 control bits of a channel
ChannelCtlBits(ch) == IF ch = PWM_0 THEN 0..7 ELSE 8..15

\* C12: no step of pwm_init_user_device, pwm_reset_pwm_channels (both through
\* pwm_init_pwm_channel) or pwm_enable working on channel c changes the other
\* channel's 8 control bits, range register or data register; no step of
\* pwm_enable changes a control bit other than c's enable bit, and when
\* pwm_enable(c, on) returns ENONE that bit equals on.
C12_OtherChannelUntouched ==
    [][\A c \in PwmCallers :
          LET f == pcall[c]
              other == 1 - f.pwm_channel
          IN
          (/\ f.op \in {"pwm_init_user_device", "pwm_reset_pwm_channels", "pwm_enable"}
           /\ f.pwm_channel \in {PWM_0, PWM_1}) =>
              /\ pwm_perph'.ctl \cap ChannelCtlBits(other)
                    = pwm_perph.ctl \cap ChannelCtlBits(other)
              /\ ChannelRange(pwm_perph', other) = ChannelRange(pwm_perph, other)
              /\ ChannelData(pwm_perph', other) = ChannelData(pwm_perph, other)
              /\ f.op = "pwm_enable" =>
                    /\ pwm_perph'.ctl \ EnableField(f.pwm_channel)
                          = pwm_perph.ctl \ EnableField(f.pwm_channel)
                    /\ (pcall'[c].pc = "unlock" /\ pcall'[c].ret = ENONE) =>
                          ChannelEnabled(pwm_perph', f.pwm_channel) = f.flag
      ]_vars

\* pwm_init_user_device(PWM_0, 25, 4 kHz, true) has returned on registers
\* whose control word was all ones and whose channel 1 held range 4000 and
\* data 1000: channel 0's control bits are cleared but for its enable bit
\* and everything of channel 1 is as it was
C12_Witness ==
    /\ pcall["p1"].op = "pwm_init_user_device"
    /\ pcall["p1"].pc = "done"
    /\ pcall["p1"].ret = ENONE
    /\ pcall["p1"].pwm_channel = PWM_0
    /\ pcall["p1"].flag
    /\ pwm_perph.ctl = (WordBits \ (0..7)) \cup {PWEN_1_BIT}
    /\ pwm_perph.rng_1 = 4800
    /\ pwm_perph.rng_2 = PWM_FREQ_4_kHZ
    /\ pwm_perph.dat_2 = 1000

\* ---- PWM driver: concurrent channel operations, under SpecPwmConc ----

\* the registers after pwm_init_pwm_channel(ch, data, range, flag) run alone
InitChannelAlone(perph, ch, data, range, flag) ==
    LET cleared == [perph EXCEPT !.ctl = perph.ctl \ ChannelCtlBits(ch)]
        loaded == IF ch = PWM_0
                  THEN [cleared EXCEPT !.dat_1 = data, !.rng_1 = range]
                  ELSE [cleared EXCEPT !.dat_2 = data, !.rng_2 = range]
    IN IF flag
       THEN [loaded EXCEPT !.ctl = loaded.ctl \cup {IF ch = PWM_0 THEN 0 ELSE 8}]
       ELSE loaded

\* the registers after pwm_enable(ch, flag) run alone
EnableAlone(perph, ch, flag) ==
    IF flag
    THEN [perph EXCEPT !.ctl = perph.ctl \cup {IF ch = PWM_0 THEN 0 ELSE 8}]
    ELSE [perph EXCEPT !.ctl = perph.ctl \ {IF ch = PWM_0 THEN 0 ELSE 8}]

\* the registers after the call of frame f run alone
CallAlone(perph, f) ==
    IF f.op = "pwm_enable"
    THEN EnableAlone(perph, f.pwm_channel, f.flag)
    ELSE InitChannelAlone(perph, f.pwm_channel, f.data_val, f.range_val, f.flag)

\* a caller is between mutex_lock and mutex_unlock
PwmInside(c) ==
    pcall[c].pc \notin {"idle", "entry", "init_lock", "duty_lock", "enable_lock", "done"}

\* C13: with pwm_init_user_device and pwm_enable calls of two threads
\* interleaved, at most one call is between taking and releasing pwm_mutex,
\* and once both have returned the control word and the range and data
\* registers are those of running the two calls one after the other, in one
\* of the two orders, from the registers they started on.
C13_ChannelOpsSerialized ==
    /\ Cardinality({c \in PwmCallers : PwmInside(c)}) <= 1
    /\ (\A c \in PwmCallers : pcall[c].pc = "done") =>
          \E prior \in PwmPatterns :
              \/ pwm_perph = CallAlone(CallAlone(prior, pcall["p1"]), pcall["p2"])
              \/ pwm_perph = CallAlone(CallAlone(prior, pcall["p2"]), pcall["p1"])

\* pwm_init_user_device(PWM_0, 25, 4 kHz, true) and pwm_enable(PWM_1, true)
\* have both returned on a control word that was 0: both enable bits are set
C13_Witness ==
    /\ \A c \in PwmCallers : pcall[c].pc = "done" /\ pcall[c].ret = ENONE
    /\ pcall["p1"].op = "pwm_init_user_device"
    /\ pcall["p1"].pwm_channel = PWM_0 /\ pcall["p1"].flag
    /\ pcall["p2"].op = "pwm_enable"
    /\ pcall["p2"].pwm_channel = PWM_1 /\ pcall["p2"].flag
    /\ pwm_perph.ctl = {PWEN_1_BIT, PWEN_2_BIT}
    /\ pwm_perph.rng_1 = 4800
    /\ pwm_perph.rng_2 = PWM_RESET_RANGE

\* ---- PWM driver: reset and rejected requests, under SpecPwm ----

\* C14: when pwm_reset_pwm_channels has returned, whatever the registers held
\* before, both data registers are 0, both range registers are 0x20 and the
\* 8 control bits of each channel (the enable bits among them) are clear.
C14_ResetRestoresDefaults ==
    \A c \in PwmCallers :
        (pcall[c].op = "pwm_reset_pwm_channels" /\ pcall[c].pc = "done") =>
            /\ pwm_perph.dat_1 = 0
            /\ pwm_perph.dat_2 = 0
            /\ pwm_perph.rng_1 = 32
            /\ pwm_perph.rng_2 = 32
            /\ pwm_perph.ctl \cap (0..15) = {}

\* the reset has returned on a control word that was all ones: its upper
\* half is all that is left
C14_Witness ==
    /\ pcall["p1"].op = "pwm_reset_pwm_channels"
    /\ pcall["p1"].pc = "done"
    /\ Len(pcall["p1"].writes) = 6
    /\ pwm_perph.ctl = 16..31
    /\ pwm_perph.rng_1 = 32 /\ pwm_perph.dat_1 = 0
    /\ pwm_perph.rng_2 = 32 /\ pwm_perph.dat_2 = 0

\* C15: pwm_init_user_device with a frequency other than 4 kHz, or with a
\* channel other than PWM_0 and PWM_1, makes no register write at any step
\* (the control word and the range and data registers are those it found,
\* no range is substituted) and returns a negative error.
C15_InitUserDeviceRejects ==
    \A c \in PwmCallers :
        LET f == pcall[c] IN
        (/\ f.op = "pwm_init_user_device"
         /\ (f.cycle_freq # 4000 \/ f.pwm_channel \notin {0, 1})) =>
            /\ f.writes = <<>>
            /\ pwm_perph \in PwmPatterns
            /\ f.pc = "done" => f.ret < 0

\* a request for 1 kHz on channel 0 has returned -EINVFUNC and the range
\* register of channel 0 still holds 4800
C15_Witness ==
    /\ pcall["p1"].op = "pwm_init_user_device"
    /\ pcall["p1"].pc = "done"
    /\ pcall["p1"].ret = -EINVFUNC
    /\ pcall["p1"].cycle_freq = 1000
    /\ pcall["p1"].pwm_channel = PWM_0
    /\ pwm_perph.rng_1 = 4800
    /\ pwm_perph.dat_1 = 2400

\* ---- LED driver: the commands of led_write, under SpecLed ----

\* the input without the NUL terminator it may end with
WithoutTerminator(user_buffer) ==
    IF Len(user_buffer) > 0 /\ user_buffer[Len(user_buffer)] = NUL
    THEN SubSeq(user_buffer, 1, Len(user_buffer) - 1)
    ELSE user_buffer

LowerCase(text) == [i \in 1..Len(text) |-> ToLower(text[i])]

\* the command an input names when compared whole, or CMD_UNSUPPORTED
NamedCommand(user_buffer) ==
    LET text == LowerCase(WithoutTerminator(user_buffer)) IN
    CASE text \in {<<"o", "f", "f">>, <<"0">>} -> CMD_OFF
      [] text \in {<<"o", "n">>, <<"1">>} -> CMD_ON
      [] text \in {<<"t", "o", "g", "g", "l", "e">>, <<"2">>} -> CMD_TOGGLE
      [] text \in {<<"b", "l", "i", "n", "k">>, <<"3">>} -> CMD_BLINK
      [] OTHER -> CMD_UNSUPPORTED

\* C16 (as claimed): a non-empty input of at most MSG_BUF_MAX_SIZE bytes that
\* led_write has copied is dispatched as a command exactly when the whole
\* input (a trailing NUL aside) is, case-insensitively, one of "off"/"0",
\* "on"/"1", "toggle"/"2", "blink"/"3", and as that command; every other
\* input, a proper prefix of a command word included, returns -EUNSUPCMD.
C16_WholeInputCommands ==
    \A d \in Devs :
        LET f == Writer(d) IN
        (/\ f.pc \notin {"idle", "entry"}
         /\ 0 < f.len /\ f.len <= MSG_BUF_MAX_SIZE
         /\ f.uncopied = 0) =>
            /\ f.cmd = NamedCommand(f.user_buffer)
            /\ (NamedCommand(f.user_buffer) = CMD_UNSUPPORTED /\ f.pc = "done")
                  => f.ret = -EUNSUPCMD

\* the fields of a device that a command works on
DeviceState(d) ==
    [led_state |-> led_dev_array[d].led_state,
     is_led_on |-> led_dev_array[d].is_led_on,
     p_blink_thread |-> led_dev_array[d].p_blink_thread,
     pin_high |-> PinHigh(d),
     threads |-> kthreads[d],
     last_out |-> last_out[d]]

\* C17: no step of a write whose input is no command changes led_state,
\* is_led_on, the pin level or the blink threads of the device (a running
\* blink thread is not asked to stop), and the write returns -EUNSUPCMD.
C17_UnsupportedLeavesDevice ==
    [][\A d \in Devs :
          LET g == wcall'[<<d, 1>>] IN
          (/\ g # Writer(d)
           /\ g.pc \notin {"idle", "entry"}
           /\ 0 < g.len /\ g.len <= MSG_BUF_MAX_SIZE
           /\ g.uncopied = 0
           /\ g.cmd = CMD_UNSUPPORTED) =>
              /\ DeviceState(d)' = DeviceState(d)
              /\ gpfsel' = gpfsel
              /\ g.pc = "done" => g.ret = -EUNSUPCMD
      ]_vars

\* "x" has been rejected while the blink thread started by an earlier
\* command goes on toggling
C17_Witness ==
    \E d \in Devs :
        /\ Writer(d).pc = "done"
        /\ Writer(d).user_buffer = <<"x">>
        /\ Writer(d).ret = -EUNSUPCMD
        /\ led_dev_array[d].led_state = LED_BLINK
        /\ led_dev_array[d].p_blink_thread = 1
        /\ kthreads[d][1].pc = "toggle_flag"
        /\ ~kthreads[d][1].should_stop

\* C18: no step of a write of more than MSG_BUF_MAX_SIZE bytes changes the
\* device (message buffer, led_state, is_led_on, task pointer), a register
\* or a blink thread, and the write returns -EMSGSIZE.
C18_TooLongRejectedFirst ==
    [][\A d \in Devs :
          LET g == wcall'[<<d, 1>>] IN
          (g # Writer(d) /\ g.pc # "idle" /\ g.len > MSG_BUF_MAX_SIZE) =>
              /\ led_dev_array' = led_dev_array
              /\ gpio_vars' = gpio_vars
              /\ kthreads' = kthreads
              /\ last_out' = last_out
              /\ g.pc = "done" => g.ret = -EMSGSIZE
      ]_vars

\* the 8 bytes "blinking" have been rejected; the buffer still holds the
\* "3" that started the blink thread, which is running
C18_Witness ==
    \E d \in Devs :
        /\ Writer(d).pc = "done"
        /\ Writer(d).len = MSG_BUF_MAX_SIZE + 1
        /\ Writer(d).ret = -EMSGSIZE
        /\ led_dev_array[d].msg_buffer[1] = "3"
        /\ led_dev_array[d].led_state = LED_BLINK
        /\ kthreads[d][1].pc = "toggle_write"
        /\ ~kthreads[d][1].should_stop

\* C19: no step of a write of length 0 changes the device (message buffer,
\* led_state, is_led_on, task pointer), a register or a blink thread, and
\* the write returns 0.
C19_EmptyWriteDoesNothing ==
    [][\A d \in Devs :
          LET g == wcall'[<<d, 1>>] IN
          (g # Writer(d) /\ g.pc # "idle" /\ g.len = 0) =>
              /\ led_dev_array' = led_dev_array
              /\ gpio_vars' = gpio_vars
              /\ kthreads' = kthreads
              /\ last_out' = last_out
              /\ g.pc = "done" => g.ret = 0
      ]_vars

\* an empty write has returned 0 with the LED on after "1"
C19_Witness ==
    \E d \in Devs :
        /\ Writer(d).pc = "done"
        /\ Writer(d).len = 0
        /\ Writer(d).ret = 0
        /\ led_dev_array[d].msg_buffer[1] = "1"
        /\ led_dev_array[d].led_state = LED_ON
        /\ led_dev_array[d].is_led_on
        /\ PinHigh(d)

\* C20 (as claimed): led_write returns len only when the command has been
\* applied, and whenever it fails (the copy of the user bytes, an
\* unsupported command, an over-length input, a hardware write, the start
\* of the blink thread) it returns a negative value.
C20_FailuresReturnNegative ==
    \A d \in Devs :
        LET f == Writer(d)
            applied ==
                /\ f.cmd # CMD_UNSUPPORTED
                /\ f.uncopied = 0
                /\ f.cmd = CMD_BLINK =>
                      /\ led_dev_array[d].led_state = LED_BLINK
                      /\ led_dev_array[d].p_blink_thread \in Tids
                /\ f.cmd = CMD_OFF => ~PinHigh(d) /\ led_dev_array[d].led_state = LED_OFF
                /\ f.cmd = CMD_ON => PinHigh(d) /\ led_dev_array[d].led_state = LED_ON
        IN
        (f.pc = "done" /\ f.len > 0) =>
            IF applied THEN f.ret = f.len ELSE f.ret < 0

\* ---- LED driver: cancelling a blink thread, under SpecLedExit ----

\* the canceller of device d's blink thread has got past kthread_stop
WriterPastStop(d) ==
    /\ Writer(d).pc \in {"act", "update", "set_blink", "done"}
    /\ Writer(d).stopped # NULL_THREAD

ExitPastStop(d) ==
    /\ led_exit.stopped[d] # NULL_THREAD
    /\ ~(led_exit.pc = "kthread_stop" /\ led_exit.led_num = d)

StoppedAndExited(d, t) ==
    /\ kthreads[d][t].pc = "exited"
    /\ kthreads[d][t].should_stop
    /\ \/ Writer(d).pc \in {"kthread_stop", "act"} /\ Writer(d).stopped = t
       \/ /\ led_exit.led_num = d
          /\ led_exit.pc \in {"kthread_stop", "output"}
          /\ led_exit.stopped[d] = t

\* C22 (as claimed): a blink thread that exits because a stop was requested
\* leaves p_blink_thread NULL and led_state set from is_led_on; when its
\* final write succeeded the pin is low, is_led_on is FALSE and led_state is
\* LED_OFF, and when it failed led_state is LED_ON exactly when is_led_on is
\* TRUE.
C22_StoppedTaskSettlesDevice ==
    \A d \in Devs, t \in Tids :
        StoppedAndExited(d, t) =>
            LET dev == led_dev_array[d] IN
            /\ dev.p_blink_thread = NULL_THREAD
            /\ dev.led_state = get_led_state_from_physical_state(dev)
            /\ OutputCtlRet(dev.pin_num) = ENONE =>
                  /\ ~dev.is_led_on
                  /\ dev.led_state = LED_OFF
                  /\ ~PinHigh(d)

\* ---- LED driver: a failed write in the blink loop, under SpecBlink ----

C24_Toggle ==
    /\ [][\A d \in Devs :
            (Writer(d).pc = "update" /\ Writer(d).cmd = CMD_TOGGLE
             /\ wcall'[<<d, 1>>].pc = "done") =>
                /\ led_dev_array'[d].is_led_on = ~led_dev_array[d].is_led_on
                /\ led_dev_array'[d].led_state
                      = (IF led_dev_array'[d].is_led_on THEN LED_ON ELSE LED_OFF)
         ]_vars
    /\ [](\A d \in Devs :
            Returned(d, CMD_TOGGLE) =>
                /\ PinHigh(d) = led_dev_array[d].is_led_on
                /\ last_out[d] = "led_write"
                /\ LiveThreads(d) = {}
                /\ Writer(d).stopped # NULL_THREAD =>
                      /\ led_dev_array[d].is_led_on
                      /\ led_dev_array[d].led_state = LED_ON
                      /\ PinHigh(d))

\* the device already is where command cmd (on or off) leaves it
AlreadyThere(d, cmd) ==
    /\ led_dev_array[d].led_state = (IF cmd = CMD_ON THEN LED_ON ELSE LED_OFF)
    /\ led_dev_array[d].is_led_on = (cmd = CMD_ON)
    /\ PinHigh(d) = (cmd = CMD_ON)
    /\ LiveThreads(d) = {}

\* C25 (as claimed): an on command that has returned len leaves LED_ON,
\* is_led_on TRUE, the pin high by the command's own write and no live blink
\* thread, and an off command LED_OFF, FALSE, low and none; an on or off
\* command issued while no blink thread is live makes no call of
\* kthread_stop; and repeated on a device that is already there, no step of
\* it changes led_state, is_led_on, p_blink_thread, the pin or a thread.
C25_OnOff ==
    /\ [](\A d \in Devs :
            /\ Returned(d, CMD_ON) =>
                  /\ led_dev_array[d].led_state = LED_ON
                  /\ led_dev_array[d].is_led_on
                  /\ PinHigh(d)
                  /\ last_out[d] = "led_write"
                  /\ LiveThreads(d) = {}
            /\ Returned(d, CMD_OFF) =>
                  /\ led_dev_array[d].led_state = LED_OFF
                  /\ ~led_dev_array[d].is_led_on
                  /\ ~PinHigh(d)
                  /\ last_out[d] = "led_write"
                  /\ LiveThreads(d) = {})
    /\ [][\A d \in Devs :
            (/\ Writer(d).pc = "clear_led_blinking"
             /\ Writer(d).cmd \in {CMD_OFF, CMD_ON}
             /\ LiveThreads(d) = {}
             /\ wcall'[<<d, 1>>] # Writer(d)) =>
                /\ wcall'[<<d, 1>>].pc = "act"
                /\ kthreads' = kthreads
         ]_vars
    /\ [][\A d \in Devs :
            (/\ Writer(d).pc \in {"clear_led_blinking", "act", "update"}
             /\ Writer(d).cmd \in {CMD_OFF, CMD_ON}
             /\ AlreadyThere(d, Writer(d).cmd)) =>
                /\ led_dev_array'[d].led_state = led_dev_array[d].led_state
                /\ led_dev_array'[d].is_led_on = led_dev_array[d].is_led_on
                /\ led_dev_array'[d].p_blink_thread = led_dev_array[d].p_blink_thread
                /\ gplev' = gplev
                /\ kthreads' = kthreads
         ]_vars

\* ---- GPIO driver: output pins, under SpecGpio ----

\* C26: in gpio_set_pin_to_output(p, initial) on a valid pin the first
\* register write is the one of 1 << p to the set register (initial high)
\* or the clear register (initial low) and the second, and last, is the one
\* to the function-select word; whenever the pin's function field is Output
\* the pin is at the level initial; the call returns ENONE with the field
\* Output; and a call that returns an error has left the function-select
\* words as it found them.
C26_LevelBeforeFunction ==
    \A c \in GpioCallers :
        LET f == gcall[c] IN
        f.op = "gpio_set_pin_to_output" =>
            /\ gpio_is_valid_pin(f.pin_num) =>
                  /\ Len(f.writes) <= 2
                  /\ Len(f.writes) >= 1 =>
                        f.writes[1] = [reg |-> IF f.flag THEN "GPSET0" ELSE "GPCLR0",
                                       val |-> {f.pin_num}]
                  /\ Len(f.writes) = 2 => f.writes[2].reg = "GPFSEL"
                  /\ Len(f.writes) < 2 => gpfsel \in FselPatterns
                  /\ FselField(gpfsel, f.pin_num) = GPIO_OUTPUT_FUNC =>
                        (f.pin_num \in gplev) = f.flag
                  /\ f.pc = "done" =>
                        /\ f.ret = ENONE
                        /\ Len(f.writes) = 2
                        /\ FselField(gpfsel, f.pin_num) = GPIO_OUTPUT_FUNC
            /\ (f.pc = "done" /\ f.ret # ENONE) => gpfsel \in FselPatterns

\* gpio_set_pin_to_output(22, true) has returned on levels that were all low
\* and function-select words that were all ones: pin 22 is a high output
C26_Witness ==
    /\ gcall["c1"].op = "gpio_set_pin_to_output"
    /\ gcall["c1"].pc = "done"
    /\ gcall["c1"].pin_num = FIRST_LED_PIN
    /\ gcall["c1"].flag
    /\ gplev = {FIRST_LED_PIN}
    /\ FselField(gpfsel, FIRST_LED_PIN) = GPIO_OUTPUT_FUNC
    /\ FselField(gpfsel, FIRST_LED_PIN + 1) = 7
    /\ Len(gcall["c1"].writes) = 2

\* ---- GPIO driver: gpio_output_ctl, under SpecGpioOut ----

\* C27: the one step of gpio_output_ctl(p, level) on a valid pin writes
\* 1 << p, once, to the set register (level high) or the clear register
\* (level low): pin p goes to level and every other pin stays as it was,
\* the function-select words are untouched, gpio_func_mutex is free before
\* and after, and the other thread's call is not affected; so when calls of
\* two threads on distinct pins have both returned, each pin is at the level
\* its call asked for, however their steps interleaved.
C27_OutputCtl ==
    /\ [][\A c \in GpioCallers :
            LET f == gcall[c] IN
            (/\ f.op = "gpio_output_ctl" /\ f.pc = "entry"
             /\ gcall'[c].pc = "done"
             /\ gpio_is_valid_pin(f.pin_num)) =>
                /\ gcall'[c].ret = ENONE
                /\ gcall'[c].writes = << [reg |-> IF f.flag THEN "GPSET0" ELSE "GPCLR0",
                                         val |-> {f.pin_num}] >>
                /\ gplev' = IF f.flag THEN gplev \cup {f.pin_num} ELSE gplev \ {f.pin_num}
                /\ gpfsel' = gpfsel
                /\ gpio_func_mutex = "free" /\ gpio_func_mutex' = "free"
                /\ \A o \in GpioCallers \ {c} : gcall'[o] = gcall[o]
         ]_vars
    /\ []((/\ \A c \in GpioCallers :
                /\ gcall[c].op = "gpio_output_ctl" /\ gcall[c].pc = "done"
                /\ gpio_is_valid_pin(gcall[c].pin_num)
           /\ gcall["c1"].pin_num # gcall["c2"].pin_num)
          => \A c \in GpioCallers : (gcall[c].pin_num \in gplev) = gcall[c].flag)

\* pin 22 has been set and pin 23 cleared by the two threads, on levels that
\* were all high: pin 23 alone is low
C27_Witness ==
    /\ \A c \in GpioCallers : gcall[c].op = "gpio_output_ctl" /\ gcall[c].pc = "done"
    /\ gcall["c1"].pin_num = FIRST_LED_PIN /\ gcall["c1"].flag
    /\ gcall["c2"].pin_num = FIRST_LED_PIN + 1 /\ ~gcall["c2"].flag
    /\ gplev = WordBits \ {FIRST_LED_PIN + 1}
    /\ gpio_func_mutex = "free"

\* ---- LED driver: the two devices, under SpecLedPair ----

\* a step of led_write on device d or of one of its blink threads
StepOfDevice(d) ==
    \/ wcall'[<<d, 1>>] # wcall[<<d, 1>>]
    \/ kthreads'[d] # kthreads[d]

\* C28: no step of a command on one LED device or of one of its blink
\* threads changes anything of the other device: its led_dev_t (led_state,
\* is_led_on, p_blink_thread, message buffer), its pin level, its blink
\* threads, the last writer of its pin and the command in progress on it.
C28_DevicesIndependent ==
    [][\A a \in Devs, b \in Devs :
          (a # b /\ StepOfDevice(a)) =>
              /\ DeviceState(b)' = DeviceState(b)
              /\ led_dev_array'[b] = led_dev_array[b]
              /\ wcall'[<<b, 1>>] = wcall[<<b, 1>>]
      ]_vars

\* device 1 is blinking, its thread about to store the high level it has
\* written, while a toggle on device 0 has stopped that device's blink
\* thread and switched its LED on
C28_Witness ==
    /\ Returned(0, CMD_TOGGLE)
    /\ Writer(0).stopped = 1
    /\ led_dev_array[0].led_state = LED_ON
    /\ PinHigh(0)
    /\ led_dev_array[1].led_state = LED_BLINK
    /\ kthreads[1][1].pc = "toggle_flag"
    /\ PinHigh(1)
    /\ ~led_dev_array[1].is_led_on

\* ---- LED driver: led_read, under SpecLedRead ----

FselAccessing(f) == f.pc \in {"fsel_lock", "fsel_read", "fsel_write", "fsel_unlock"}

\* C30: no call returns -EINVREG: every pin that passes the range check has
\* pin_num / 10 <= GPFSEL_MAX_REG_OFFSET = 2, so the second check never
\* fires, and every function-select access is to one of the words 0..2.
C30_NeverInvalidRegister ==
    /\ GPFSEL_MAX_REG_OFFSET = 2
    /\ DOMAIN gpfsel = 0..GPFSEL_MAX_REG_OFFSET
    /\ \A p \in PinInputs :
          gpio_is_valid_pin(p) => FselRegisterOffset(p) <= GPFSEL_MAX_REG_OFFSET
    /\ \A p \in PinInputs, func \in FuncInputs : FselCheck(p, func) # -EINVREG
    /\ \A c \in GpioCallers :
          /\ gcall[c].ret # -EINVREG
          /\ FselAccessing(gcall[c]) => FselRegisterOffset(gcall[c].pin_num) \in DOMAIN gpfsel

\* gpio_set_pin_function has written the word of the highest valid pin, the
\* one whose pin_num / 10 equals GPFSEL_MAX_REG_OFFSET
C30_Witness ==
    /\ gcall["c1"].op = "gpio_set_pin_function"
    /\ gcall["c1"].pin_num = MAX_PIN_NUM
    /\ gcall["c1"].pc = "fsel_unlock"
    /\ FselRegisterOffset(gcall["c1"].pin_num) = GPFSEL_MAX_REG_OFFSET
    /\ Len(gcall["c1"].writes) = 1

\* ---- GPIO driver: gpio_set_pin_to_pwm ----

PwmPins == {12, 13, 18, 19}

\* C31: a returned gpio_set_pin_to_pwm(pin) has, for a PWM-capable pin,
\* returned ENONE and left the pin's function field at the alternate
\* function of the lookup table (code 4 for pins 12 and 13, code 2 for pins
\* 18 and 19); for every other pin it has returned an error and written no
\* register.
C31_SetPinToPwm ==
    \A c \in GpioCallers :
        (gcall[c].op = "gpio_set_pin_to_pwm" /\ gcall[c].pc = "done") =>
            IF gcall[c].pin_num \in PwmPins
            THEN /\ gcall[c].ret = ENONE
                 /\ FselField(gpfsel, gcall[c].pin_num)
                        = gpio_determine_pwm_alt_func(gcall[c].pin_num)
                 /\ FselField(gpfsel, gcall[c].pin_num)
                        = (IF gcall[c].pin_num \in {12, 13} THEN 4 ELSE 2)
            ELSE /\ gcall[c].ret < 0
                 /\ gcall[c].writes = <<>>

\* ---- LED driver: a blink command whose kthread_run fails ----

\* the blink command of writer w has returned the error of kthread_run
BlinkStartFailed(w) ==
    /\ wcall[w].pc = "done"
    /\ wcall[w].cmd = CMD_BLINK
    /\ wcall[w].ret = -ENOMEM

\* C32: when kthread_run fails in a blink command the command returns a
\* negative error, led_state is not LED_BLINK and p_blink_thread is NULL;
\* no later command and no led_driver_exit calls kthread_stop on something
\* that is not a live task.
C32_FailedBlinkStart ==
    /\ \A w \in Writers :
          BlinkStartFailed(w) =>
              /\ wcall[w].ret < 0
              /\ led_dev_array[WriterDev(w)].led_state # LED_BLINK
              /\ led_dev_array[WriterDev(w)].p_blink_thread = NULL_THREAD
    /\ \A w \in Writers : wcall[w].pc # "oops"
    /\ led_exit.pc # "oops"

\* ---- LED driver: two writers on one device ----

\* C33: with two write calls on one device running at the same time, in no
\* reachable state has the device more than one live blink thread, or a
\* live blink thread that p_blink_thread does not point to.
C33_ConcurrentWritersOneTask ==
    \A d \in Devs :
        /\ Cardinality(LiveThreads(d)) <= 1
        /\ \A t \in LiveThreads(d) : led_dev_array[d].p_blink_thread = t

\* ---- LED driver: led_driver_exit ----

\* C34: led_driver_exit calls kthread_stop for a device only on a live
\* blink thread, has waited for that thread's exit when it writes the
\* device's pin, and when it has returned no blink thread is live and the
\* last output write on each LED pin is its clear, which left the pin low.
C34_ExitStopsLiveTasksOnly ==
    /\ led_exit.pc # "oops"
    /\ \A d \in Devs :
          (led_exit.stopped[d] # NULL_THREAD
              /\ (led_exit.led_num > d \/ led_exit.pc \in {"output", "unloaded"})) =>
              kthreads[d][led_exit.stopped[d]].pc = "exited"
    /\ led_exit.pc = "unloaded" =>
          \A d \in Devs :
              /\ LiveThreads(d) = {}
              /\ last_out[d] = "led_driver_exit"
              /\ ~PinHigh(d)

\* ---- LED driver: the blink thread under fair scheduling ----

\* every stop request to a live blink thread ends with the thread's exit,
\* and the command or led_driver_exit that waits in kthread_stop returns
StopCompletes ==
    /\ \A d \in Devs : \A t \in Tids :
          (Live(d, t) /\ kthreads[d][t].should_stop) ~> (kthreads[d][t].pc = "exited")
    /\ \A d \in Devs :
          (wcall[<<d, 1>>].pc = "kthread_stop") ~> (wcall[<<d, 1>>].pc = "done")
    /\ (led_exit.pc = "kthread_stop") ~> (led_exit.pc = "unloaded")

\* a thread running led_blink that is asked to stop leaves the loop at its
\* next test, and has made its final write, which leaves the pin low, when
\* it exits
StoppedThreadWritesLow ==
    [][\A d \in Devs : \A t \in Tids :
          /\ (kthreads[d][t].pc = "loop" /\ kthreads[d][t].should_stop
                /\ kthreads'[d][t] # kthreads[d][t]) =>
                kthreads'[d][t].pc = "final_write"
          /\ (kthreads[d][t].pc \notin {"created", "exited"}
                /\ kthreads'[d][t].pc = "exited" /\ kthreads[d][t].should_stop) =>
                (last_out'[d] = "led_blink" /\ ~PinHigh(d)')
      ]_vars

\* a thread in its loop goes on to its next write unless a stop is requested
\* first, and every write of the loop inverts the level of the pin
KeepsToggling ==
    /\ \A d \in Devs : \A t \in Tids :
          (kthreads[d][t].pc = "loop" /\ ~kthreads[d][t].should_stop)
              ~> (kthreads[d][t].pc = "toggle_flag" \/ kthreads[d][t].should_stop)
    /\ [][\A d \in Devs : \A t \in Tids :
             (kthreads[d][t].pc = "toggle_write" /\ kthreads'[d][t].pc = "toggle_flag") =>
                 (PinHigh(d)' = ~PinHigh(d))
         ]_vars

C36_StateMatchesFlag ==
    \A d \in Devs :
        LET dev == led_dev_array[d] IN
        ((\A w \in Writers : WriterDev(w) = d => wcall[w].pc \in {"idle", "done", "read_done"})
            /\ dev.led_state # LED_BLINK) =>
            /\ (dev.led_state = LED_ON) <=> dev.is_led_on
            /\ (dev.led_state = LED_OFF) <=> ~dev.is_led_on

\* a toggle has stopped a blink thread, which made its final write and
\* exited, and has then switched the LED on
C36_Witness ==
    \E d \in Devs :
        /\ wcall[<<d, 1>>].pc = "done"
        /\ wcall[<<d, 1>>].cmd = CMD_TOGGLE
        /\ wcall[<<d, 1>>].stopped = 1
        /\ kthreads[d][1].pc = "exited"
        /\ led_dev_array[d].p_blink_thread = NULL_THREAD
        /\ led_dev_array[d].led_state = LED_ON
        /\ led_dev_array[d].is_led_on

\* ---- LED driver: led_driver_init ----

\* C37: when led_driver_init has returned ENONE, device i is bound to pin
\* 22 + i, pins 22 and 23 both have function Output, both were driven low,
\* and each device has led_state LED_OFF, is_led_on false and no blink
\* thread: the state is the one LedInit describes.  When
\* gpio_set_pin_to_output fails for a device, that device has no cdev and no
\* device node and led_driver_init returns the error.
C37_InitBindsAndConfigures ==
    /\ (led_init.pc = "done" /\ led_init.first_pin = FIRST_LED_PIN) =>
          /\ led_init.error = ENONE
          /\ \A i \in Devs :
                /\ led_dev_array[i].pin_num = 22 + i
                /\ FselField(gpfsel, 22 + i) = GPIO_OUTPUT_FUNC
                /\ (22 + i) \notin gplev
                /\ last_out[i] = "init"
                /\ led_dev_array[i].led_state = LED_OFF
                /\ ~led_dev_array[i].is_led_on
                /\ led_dev_array[i].p_blink_thread = NULL_THREAD
                /\ LiveThreads(i) = {}
          /\ led_dev_array = [d \in Devs |-> LedDevInit(d)]
          /\ \E fsel \in FselPatterns : gpfsel = FselAfterInit(fsel, MAX_LED_DEVICES)
          /\ \E lev \in LevPatterns : gplev = LevAfterInit(lev, MAX_LED_DEVICES)
    /\ (led_init.pc = "failed" /\ led_init.error = -EINVPIN) =>
          /\ ~gpio_is_valid_pin(led_init.first_pin + led_init.led_num)
          /\ ~led_init.cdev[led_init.led_num]
          /\ led_init.p_device[led_init.led_num] = "NULL"
          /\ led_init.error < 0
    /\ led_init.pc = "done" => \A i \in Devs : gpio_is_valid_pin(led_init.first_pin + i)

\* led_driver_init has returned ENONE with all other function fields set and
\* all other pins high before: pins 22 and 23 are outputs and low, the
\* neighbouring field and the other pins are as they were
C37_Witness ==
    /\ led_init.pc = "done"
    /\ led_init.first_pin = FIRST_LED_PIN
    /\ FselField(gpfsel, 22) = GPIO_OUTPUT_FUNC
    /\ FselField(gpfsel, 23) = GPIO_OUTPUT_FUNC
    /\ FselField(gpfsel, 24) = GPFSEL_FIELD_MASK
    /\ gplev = WordBits \ {22, 23}

\* ---- PWM driver: the order of the writes of pwm_init_pwm_channel ----

\* the names of the registers a call has written, in order
RECURSIVE WrittenRegs(_)
WrittenRegs(writes) ==
    IF writes = <<>> THEN <<>> ELSE <<Head(writes).reg>> \o WrittenRegs(Tail(writes))

\* the call is pwm_init_pwm_channel on a valid channel
InitOfValidChannel(f) ==
    /\ f.op \in {"pwm_init_user_device", "pwm_reset_pwm_channels"}
    /\ validate_pwm_channel(f.pwm_channel)

\* the call makes one call of pwm_init_pwm_channel, so that its log of writes
\* is that of pwm_init_pwm_channel
SingleInit(f) == f.op = "pwm_init_user_device"

\* C38: pwm_init_pwm_channel on a valid channel first clears the channel's 8
\* control bits, then writes the data register, then the range register, and
\* sets the enable bit only after both: while the data and the range are
\* being written the channel is disabled, whatever other callers do, and
\* with is_enabled_initially false the channel is disabled when the call
\* releases the mutex.
C38_DisabledWhileUpdating ==
    \A c \in PwmCallers :
        LET f == pcall[c] IN
        InitOfValidChannel(f) =>
            /\ f.pc \in {"init_dat", "init_rng", "init_enable", "init_enable_write"} =>
                  /\ pwm_perph.ctl \cap ChannelCtlBits(f.pwm_channel) = {}
                  /\ ~ChannelEnabled(pwm_perph, f.pwm_channel)
            /\ (f.pc = "init_dat" /\ SingleInit(f)) => WrittenRegs(f.writes) = <<"ctl">>
            /\ (f.pc = "init_rng" /\ SingleInit(f)) =>
                  WrittenRegs(f.writes) = <<"ctl", "dat">>
            /\ (f.pc \in {"init_enable", "init_enable_write"} /\ SingleInit(f)) =>
                  WrittenRegs(f.writes) = <<"ctl", "dat", "rng">>
            /\ (f.pc = "unlock" /\ SingleInit(f)) =>
                  /\ WrittenRegs(f.writes) = IF f.flag THEN <<"ctl", "dat", "rng", "ctl">>
                                             ELSE <<"ctl", "dat", "rng">>
                  /\ ChannelEnabled(pwm_perph, f.pwm_channel) = f.flag
                  /\ ChannelRange(pwm_perph, f.pwm_channel) = f.range_val
                  /\ ChannelData(pwm_perph, f.pwm_channel) = f.data_val

\* a call that is to enable channel 0 has written the data and not yet the
\* range; the channel, enabled before the call, is disabled, and another
\* caller waits for the mutex to enable it
C38_Witness ==
    /\ pcall["p1"].op = "pwm_init_user_device"
    /\ pcall["p1"].pwm_channel = PWM_0
    /\ pcall["p1"].flag
    /\ pcall["p1"].pc = "init_rng"
    /\ ~ChannelEnabled(pwm_perph, PWM_0)
    /\ pcall["p2"].op = "pwm_enable"
    /\ pcall["p2"].pwm_channel = PWM_0
    /\ pcall["p2"].flag
    /\ pcall["p2"].pc = "enable_lock"
    /\ ChannelEnabled(pwm_perph, PWM_1)

\* ---- GPIO and PWM drivers: the two mutexes ----

\* where a call is while it holds gpio_func_mutex, and pwm_mutex
GpioLockedPcs == {"fsel_read", "fsel_write", "fsel_unlock"}
PwmLockedPcs ==
    {"init_clear", "init_clear_write", "init_dat", "init_rng", "init_enable",
     "init_enable_write", "duty_body", "enable_body", "enable_write", "unlock"}

\* a mutex is held exactly by the call that is between its mutex_lock and
\* its mutex_unlock: a call that has returned, on any path, holds nothing,
\* and a call that is about to lock does not hold the mutex already
MutexHeldInsideOnly ==
    /\ \A c \in GpioCallers : (gpio_func_mutex = c) <=> (gcall[c].pc \in GpioLockedPcs)
    /\ \A c \in PwmCallers : (pwm_mutex = c) <=> (pcall[c].pc \in PwmLockedPcs)
    /\ gpio_func_mutex \in GpioCallers \cup {"free"}
    /\ pwm_mutex \in PwmCallers \cup {"free"}

\* C39: every GPIO and PWM operation that takes gpio_func_mutex or pwm_mutex
\* releases it before it returns, on the error paths too; no operation takes
\* a mutex it holds, or holds both; under fair scheduling every call
\* returns, whatever the other callers do.
C39_MutexesReleasedCallsReturn ==
    /\ []MutexHeldInsideOnly
    /\ \A c \in GpioCallers : (gcall[c].pc # "idle") ~> (gcall[c].pc = "done")
    /\ \A c \in PwmCallers : (pcall[c].pc # "idle") ~> (pcall[c].pc = "done")
    /\ <>[](gpio_func_mutex = "free" /\ pwm_mutex = "free")

\* all four calls have returned and both mutexes are free; two of the PWM
\* calls took the mutex and left by their invalid-channel paths
C39_Witness ==
    /\ gpio_func_mutex = "free"
    /\ pwm_mutex = "free"
    /\ \A c \in GpioCallers : gcall[c].pc = "done" /\ gcall[c].ret = ENONE
    /\ \A c \in PwmCallers :
          pcall[c].pc = "done" /\ pcall[c].ret = -EINVFUNC /\ pcall[c].pwm_channel = 3
    /\ pcall["p1"].op = "pwm_init_user_device"
    /\ pcall["p2"].op = "pwm_set_duty_cycle"

====
